---- MODULE Spec2Model ----
(***************************************************************************)
(* Writingway2: the streaming inference client (generation.js,             *)
(* streamGeneration), the connection test cycle (saveAISettings in its     *)
(* two versions: the retrying one and the single-probe one) and the        *)
(* provider catalog (fetchProviderModels in the same two modules).         *)
(*                                                                         *)
(* A byte of the response body is a one-character string ("d", "{", "\n",  *)
(* ...), one of the two bytes "C3", "A9" of the UTF-8 encoding of U+00E9,  *)
(* or a lexeme of the payload syntax; a decoded character is the same      *)
(* string, "U+E9" or "U+FFFD".                                             *)
(***************************************************************************)
EXTENDS Integers, Sequences, FiniteSets, TLC

\* ------------------------------------------------------------------ bounds
\* Frames (newline-terminated lines) the backend sends in one response.
MaxFrames == 2

\* ------------------------------------------------------------ text helpers
StartsWith(s, p) == Len(s) >= Len(p) /\ SubSeq(s, 1, Len(p)) = p

EndsWith(s, p) == Len(s) >= Len(p) /\ SubSeq(s, Len(s) - Len(p) + 1, Len(s)) = p

\* String.prototype.slice(n): the text from index n (0-based) on.
Slice(s, n) == SubSeq(s, n + 1, Len(s))

Contains(s, c) == \E i \in 1..Len(s) : s[i] = c

IndexOf(s, c) == CHOOSE i \in 1..Len(s) : s[i] = c /\ \A j \in 1..(i - 1) : s[j] # c

IsPrefixOf(p, s) == Len(p) <= Len(s) /\ SubSeq(s, 1, Len(p)) = p

\* ------------------------------------------------- the protocol's texts
\* A symbol of a payload is one character, or one of the lexemes KC
\* ("content":" with its quotes and colon) and KS ("stop":true), which the
\* model keeps whole; the prefix, the newline and the content text are
\* character by character.
DataPrefix == <<"d","a","t","a",":"," ">>

KeyContent == <<"{","KC">>

CloseObject == <<"\"","}">>

CloseWithStop == <<"\"",",","KS","}">>

TxtStop == <<"{","KS","}">>

TxtNull == <<"n","u","l","l">>

TxtBad == <<"{","x","}">>

LinePing == <<":","k">>

TokHi == <<"H","U+E9">>

TokOk == <<"k">>

\* The lines a backend may send (without their terminating newline): a
\* content frame, a stop frame, a frame with content and stop, a malformed
\* payload, a payload that parses to null, a frame with empty content, a
\* blank line and a line without the "data: " prefix.
FrameHi == DataPrefix \o KeyContent \o TokHi \o CloseObject

FrameStop == DataPrefix \o TxtStop

FrameOkStop == DataPrefix \o KeyContent \o TokOk \o CloseWithStop

FrameBad == DataPrefix \o TxtBad

FrameNull == DataPrefix \o TxtNull

FrameEmpty == DataPrefix \o KeyContent \o CloseObject

Frames == {FrameHi, FrameStop, FrameOkStop, FrameBad, FrameNull,
           FrameEmpty, <<>>, LinePing}

\* An unterminated tail the response may end with.
Tails == {<<>>, FrameHi}

\* The contents on which the caller's onToken may throw.
Throwing == {TokOk}

\* The backend's UTF-8 encoder: U+00E9 is the two bytes C3 A9.
RECURSIVE Utf8Encode(_)
Utf8Encode(t) ==
  IF t = <<>> THEN <<>>
  ELSE (IF Head(t) = "U+E9" THEN <<"C3", "A9">> ELSE <<Head(t)>>) \o Utf8Encode(Tail(t))

RECURSIVE WithNewlines(_)
WithNewlines(fs) ==
  IF fs = <<>> THEN <<>> ELSE Head(fs) \o <<"\n">> \o WithNewlines(Tail(fs))

FrameSeqs == UNION {[1..n -> Frames] : n \in 0..MaxFrames}

Bodies == {Utf8Encode(WithNewlines(fs) \o t) : fs \in FrameSeqs, t \in Tails}

\* Whether the text holds the content as a contiguous part.
Occurs(tok, text) ==
  \E i \in 1..Len(text) : i + Len(tok) - 1 <= Len(text) /\ SubSeq(text, i, i + Len(tok) - 1) = tok

\* ------------------------------------------------------------- the decoder
\* TextDecoder.decode(value, {stream: true}) on the bytes held back by the
\* previous call followed by the chunk: an incomplete sequence at the end of
\* the chunk is held back, an invalid one becomes U+FFFD.
RECURSIVE Utf8Decode(_)
Utf8Decode(bs) ==
  IF bs = <<>> THEN [text |-> <<>>, pending |-> <<>>]
  ELSE IF Head(bs) = "C3" THEN
    IF Len(bs) = 1 THEN [text |-> <<>>, pending |-> <<"C3">>]
    ELSE IF bs[2] = "A9" THEN
      LET r == Utf8Decode(Tail(Tail(bs))) IN [r EXCEPT !.text = <<"U+E9">> \o @]
    ELSE LET r == Utf8Decode(Tail(bs)) IN [r EXCEPT !.text = <<"U+FFFD">> \o @]
  ELSE IF Head(bs) = "A9" THEN
    LET r == Utf8Decode(Tail(bs)) IN [r EXCEPT !.text = <<"U+FFFD">> \o @]
  ELSE LET r == Utf8Decode(Tail(bs)) IN [r EXCEPT !.text = <<Head(bs)>> \o @]

\* generation.js:91, decoder.decode(value, { stream: true })
Decode(held, value) == Utf8Decode(held \o value)

\* generation.js:93, buffer.split('\n'): at least one segment, the last one
\* is what follows the last newline.
RECURSIVE Split(_)
Split(s) ==
  IF ~Contains(s, "\n") THEN <<s>>
  ELSE LET i == IndexOf(s, "\n")
       IN  <<SubSeq(s, 1, i - 1)>> \o Split(SubSeq(s, i + 1, Len(s)))

\* The complete segments: what is left in `lines` after lines.pop().
CompleteLines(segs) == SubSeq(segs, 1, Len(segs) - 1)

\* A reader that keeps nothing between chunks.
DropTail(segs) == <<>>

\* generation.js:94, buffer = lines.pop(): the segment after the last newline.
PoppedTail(segs) == segs[Len(segs)]

\* JSON.parse on the payloads of the protocol. kind is "object" (with the
\* content string, <<>> when absent or empty, and the stop flag), "null"
\* (the JSON text null) or "SyntaxError". A text that JSON.parse would turn
\* into a string, number or boolean has neither a content nor a stop
\* property and is handled like a SyntaxError here: both yield no event.
JSONparse(t) ==
  IF t = TxtNull THEN [kind |-> "null", content |-> <<>>, stop |-> FALSE]
  ELSE IF t = TxtStop THEN [kind |-> "object", content |-> <<>>, stop |-> TRUE]
  ELSE IF /\ StartsWith(t, KeyContent)
          /\ EndsWith(t, CloseObject)
          /\ Len(t) >= Len(KeyContent) + Len(CloseObject)
          /\ ~Contains(SubSeq(t, Len(KeyContent) + 1, Len(t) - Len(CloseObject)), "\"")
    THEN [kind |-> "object",
          content |-> SubSeq(t, Len(KeyContent) + 1, Len(t) - Len(CloseObject)),
          stop |-> FALSE]
  ELSE IF /\ StartsWith(t, KeyContent)
          /\ EndsWith(t, CloseWithStop)
          /\ Len(t) >= Len(KeyContent) + Len(CloseWithStop)
          /\ ~Contains(SubSeq(t, Len(KeyContent) + 1, Len(t) - Len(CloseWithStop)), "\"")
    THEN [kind |-> "object",
          content |-> SubSeq(t, Len(KeyContent) + 1, Len(t) - Len(CloseWithStop)),
          stop |-> TRUE]
  ELSE [kind |-> "SyntaxError", content |-> <<>>, stop |-> FALSE]

\* The state of the for loop over the lines of one chunk: the onToken calls
\* made so far, whether the function has returned (a stop frame), whether a
\* frame carrying stop = true has been parsed, the length of `calls` when it
\* was, and the exception that left streamGeneration ("none" when none did).
LoopStart(cs, seen, at) ==
  [calls |-> cs, returned |-> FALSE, stopSeen |-> seen, stopAt |-> at, raised |-> "none"]

\* A parse failure that aborts the stream instead of being ignored.
HandleLineAbort(line, st, throws) ==
  IF st.returned \/ st.raised # "none" THEN st
  ELSE IF ~StartsWith(line, DataPrefix) THEN st
  ELSE LET data == JSONparse(Slice(line, 6))
       IN  IF data.kind = "SyntaxError" THEN [st EXCEPT !.raised = "SyntaxError"]
           ELSE IF data.kind = "null" THEN st
           ELSE LET called == IF data.content # <<>> THEN Append(st.calls, data.content)
                                                     ELSE st.calls
                    threw  == data.content # <<>> /\ data.content \in throws
                    seen   == [st EXCEPT !.calls = called,
                                         !.stopSeen = @ \/ data.stop,
                                         !.stopAt = IF data.stop /\ ~st.stopSeen
                                                    THEN Len(called) ELSE @]
               IN  IF threw THEN seen
                   ELSE IF data.stop THEN [seen EXCEPT !.returned = TRUE]
                   ELSE seen

\* generation.js:96-110, the body of the for loop for one line. The try
\* block holds JSON.parse, the onToken call and the stop test; its catch
\* ignores whatever was thrown: a SyntaxError of JSON.parse, the TypeError of
\* reading .content of null, and an exception of onToken (thrown by the
\* callback on the contents in `throws`), which skips the stop test.
HandleLine(line, st, throws) ==
  IF st.returned \/ st.raised # "none" THEN st
  ELSE IF ~StartsWith(line, DataPrefix) THEN st
  ELSE LET data == JSONparse(Slice(line, 6))
       IN  IF data.kind = "SyntaxError" THEN st
           ELSE IF data.kind = "null" THEN st
           ELSE LET called == IF data.content # <<>> THEN Append(st.calls, data.content)
                                                     ELSE st.calls
                    threw  == data.content # <<>> /\ data.content \in throws
                    seen   == [st EXCEPT !.calls = called,
                                         !.stopSeen = @ \/ data.stop,
                                         !.stopAt = IF data.stop /\ ~st.stopSeen
                                                    THEN Len(called) ELSE @]
               IN  IF threw THEN seen
                   ELSE IF data.stop THEN [seen EXCEPT !.returned = TRUE]
                   ELSE seen

\* generation.js:96-111, for (const line of lines)
RECURSIVE ProcessLines(_, _, _)
ProcessLines(lines, st, throws) ==
  IF lines = <<>> THEN st
  ELSE ProcessLines(Tail(lines), HandleLine(Head(lines), st, throws), throws)

\* ------------------------------------------------- the connection test
\* saveAISettings, retrying version: const maxRetries = 60
maxRetries == 60

\* The two calls of saveAISettings the application may make; nothing in
\* either version keeps the second from starting while the first is awaited.
Calls == {1, 2}

\* What a health probe can end with: a success status, another status, a
\* rejected fetch, and the abort of the probe's own 5 s timer.
ProbeResults == {"ok", "status", "network", "timeout"}

\* The settings a call finds in the app: local mode, or api mode with the
\* key and the model present or not.
Configs ==
  {[aiMode |-> "local", aiApiKey |-> FALSE, aiModel |-> FALSE]} \cup
  {[aiMode |-> "api", aiApiKey |-> k, aiModel |-> m] : k \in BOOLEAN, m \in BOOLEAN}

\* The loop condition with the bound off by one.
MayRetryOffByOne(att) == att <= maxRetries

\* while (attempt < maxRetries && !connected), and the same test in the
\* catch block before the delay; connected is false wherever it is asked.
MayRetry(att) == att < maxRetries

\* A success response handled like any other response.
LoopStepIgnoresOk(result, att) ==
  IF result \in {"ok", "status"}
  THEN (IF MayRetry(att) THEN "probe" ELSE "error")
  ELSE (IF MayRetry(att) THEN "wait" ELSE "error")

\* The retrying version: what follows a probe that ended with `result` on
\* attempt `att`. "ready": response.ok, connected = true, break. "probe": a
\* response that is not ok throws nothing, so the loop goes straight to its
\* next iteration. "wait": fetch rejected or aborted, the catch block awaits
\* the retry delay. "error": the budget is used up, the loop ends with
\* connected false and the Error is thrown.
LoopStep(result, att) ==
  IF result = "ok" THEN "ready"
  ELSE IF result = "status" THEN (IF MayRetry(att) THEN "probe" ELSE "error")
  ELSE (IF MayRetry(att) THEN "wait" ELSE "error")

\* A probe that takes any answer of the server for a success.
SingleStepAnyAnswer(result) == IF result \in {"ok", "status"} THEN "ready" ELSE "error"

\* The single-probe version: response.ok or the Error is thrown; a rejected
\* fetch goes to the same catch block.
SingleStep(result) == IF result = "ok" THEN "ready" ELSE "error"

\* saveAISettings, retrying version: const retryDelay = 3000 (ms)
retryDelay == 3000

\* setTimeout(() => controller.abort(), 5000): the life of a probe, in ms
probeTimeout == 5000

\* t(key), the text the application's translation table holds for the key;
\* the table is not part of these sources, the text is stood for by its key.
T(key) == <<key>>

\* No Error was thrown.
NoMessage == <<>>

\* Math.floor((attempt * retryDelay) / 1000)
Elapsed(att) == (att * retryDelay) \div 1000

\* The message of the Error thrown when the loop ends without a connection:
\* t('ai.couldNotConnectPrefix') + elapsed + t('ai.couldNotConnectSuffix')
CouldNotConnect(att) ==
  T("ai.couldNotConnectPrefix") \o <<ToString(Elapsed(att))>> \o T("ai.couldNotConnectSuffix")

\* The message of the Error that ends a local-mode cycle. The single-probe
\* version throws its own Error on a response that is not ok; a rejected
\* fetch brings the browser's message.
ProbeFailure(ver, result, att) ==
  IF ver = "retry" THEN CouldNotConnect(att)
  ELSE IF result = "status" THEN <<"Local server not responding">>
  ELSE <<"Failed to fetch">>

\* A validation that asks for the model only.
ApiValidationModelOnly(ver, cfg) ==
  IF ~cfg.aiModel
  THEN (IF ver = "retry" THEN T("ai.modelRequired") ELSE <<"Model name is required">>)
  ELSE NoMessage

\* The api branch of saveAISettings: the key is asked for first, then the
\* model; NoMessage when both are there.
ApiValidation(ver, cfg) ==
  IF ~cfg.aiApiKey
  THEN (IF ver = "retry" THEN T("ai.apiKeyRequired") ELSE <<"API key is required">>)
  ELSE IF ~cfg.aiModel
  THEN (IF ver = "retry" THEN T("ai.modelRequired") ELSE <<"Model name is required">>)
  ELSE NoMessage

\* The values of the endpoint field: empty, the default and another port.
Endpoints == {"", "http://localhost:8080", "http://localhost:9090"}

\* app.aiEndpoint || 'http://localhost:8080'
EndpointOrDefault(e) == IF e = "" THEN "http://localhost:8080" ELSE e

\* The settings object saveAISettings stores before it tests the connection;
\* endpoint: app.aiEndpoint || (app.aiMode === 'local' ? 'http://localhost:8080' : '')
Settings(cfg, provider, e, temp, tokens) ==
  [mode |-> cfg.aiMode, provider |-> provider, apiKey |-> cfg.aiApiKey, model |-> cfg.aiModel,
   endpoint |-> IF e # "" THEN e ELSE IF cfg.aiMode = "local" THEN "http://localhost:8080" ELSE "",
   temperature |-> temp, maxTokens |-> tokens]

\* What an earlier session may have left in storage: nothing, or the record
\* of a save with values of the form.
StoredSamples ==
  {<<>>,
   <<Settings([aiMode |-> "local", aiApiKey |-> FALSE, aiModel |-> FALSE],
              "anthropic", "", "0", "512")>>,
   <<Settings([aiMode |-> "api", aiApiKey |-> TRUE, aiModel |-> TRUE],
              "openrouter", "", "1.2", "512")>>,
   <<Settings([aiMode |-> "api", aiApiKey |-> TRUE, aiModel |-> FALSE],
              "anthropic", "", "0.8", "300")>>}

\* loadAISettings: settings.temperature || 0.8; the number 0 is falsy
TemperatureOrDefault(temp) == IF temp = "0" THEN "0.8" ELSE temp

\* loadAISettings: settings.maxTokens || 300
MaxTokensOrDefault(tokens) == IF tokens = "0" THEN "300" ELSE tokens

\* generation.js:66, fetch('http://localhost:8080/completion', ...): the
\* URL is a literal, whatever the endpoint `e` of the settings is.
CompletionUrl(e) == <<"http://localhost:8080", "/completion">>

\* A catch block that leaves the status as it is.
FailStatusKeeps(status) == status

\* The catch block of saveAISettings: app.aiStatus = 'error'.
FailStatus(status) == "error"

\* --------------------------------------------------- the provider catalog
\* Entries the provider's models endpoint lists in one answer.
MaxModels == 2

\* The calls of fetchProviderModels the application may make.
FetchCalls == {1, 2}

Providers == {"openrouter", "openai", "anthropic", "google"}

\* An entry of data.data. hasId is FALSE when the entry has no id property
\* (m.id is undefined). id and name are texts whose symbols are a character
\* or one of the lexemes ":free", "gpt" and "4o"; a name that is absent or
\* empty is the empty text.
RawEntries ==
  {[hasId |-> TRUE, id |-> <<"z", ":free">>, name |-> <<"Z", "e">>],
   [hasId |-> TRUE, id |-> <<"a", ":free">>, name |-> <<"A", "b">>],
   [hasId |-> TRUE, id |-> <<"gpt", "-", "4o">>, name |-> <<"b">>],
   [hasId |-> TRUE, id |-> <<"a">>, name |-> <<>>],
   [hasId |-> FALSE, id |-> <<>>, name |-> <<"x">>]}

CatalogLists == UNION {[1..n -> RawEntries] : n \in 0..MaxModels}

\* What the models endpoint answers: a success status with a body whose
\* data is a list, a status that is not ok, a rejected fetch, or a success
\* status with a body that is no JSON or has no data list.
Responses ==
  {[kind |-> "ok", data |-> d] : d \in CatalogLists} \cup
  {[kind |-> k, data |-> <<>>] : k \in {"status", "network", "malformed"}}

\* The list the app is built with ("keep hardcoded list").
Hardcoded == <<[id |-> <<"h">>, name |-> <<"H">>, recommended |-> FALSE]>>

\* String.prototype.toLowerCase and toUpperCase on the symbols in use.
Lower(x) == CASE x = "Z" -> "z" [] x = "A" -> "a" [] OTHER -> x

Upper(x) ==
  CASE x = "z" -> "Z" [] x = "a" -> "A" [] x = "b" -> "B" [] x = "gpt" -> "GPT"
    [] x = "4o" -> "4O" [] x = ":free" -> ":FREE" [] OTHER -> x

ToLowerCase(t) == [i \in 1..Len(t) |-> Lower(t[i])]

\* m.id.toUpperCase().replace(/-/g, ' ')
UpperSpaced(t) == [i \in 1..Len(t) |-> IF t[i] = "-" THEN " " ELSE Upper(t[i])]

\* The collation order of the symbols of lower-cased names: punctuation,
\* digits, letters.
Alphabet == <<"-", ":free", "4o", "a", "b", "e", "gpt", "x", "z">>

Rank(x) == CHOOSE i \in 1..Len(Alphabet) : Alphabet[i] = x

\* String.prototype.localeCompare: negative, zero or positive.
RECURSIVE LocaleCompare(_, _)
LocaleCompare(a, b) ==
  IF a = <<>> /\ b = <<>> THEN 0
  ELSE IF a = <<>> THEN -1
  ELSE IF b = <<>> THEN 1
  ELSE IF Rank(Head(a)) < Rank(Head(b)) THEN -1
  ELSE IF Rank(Head(a)) > Rank(Head(b)) THEN 1
  ELSE LocaleCompare(Tail(a), Tail(b))

\* m.id.includes(':free')
IsFree(m) == Contains(m.id, ":free")

\* m.name || m.id
NameOrId(m) == IF m.name # <<>> THEN m.name ELSE m.id

\* The comparator given to sort: free models first; then, in the retrying
\* module (part_000), alphabetically by lower-cased name, and in
\* modules/ai-settings.js nothing more (return 0).
Compare(ver, a, b) ==
  IF IsFree(a) /\ ~IsFree(b) THEN -1
  ELSE IF ~IsFree(a) /\ IsFree(b) THEN 1
  ELSE IF ver = "retry"
  THEN LocaleCompare(ToLowerCase(NameOrId(a)), ToLowerCase(NameOrId(b)))
  ELSE 0

\* Array.prototype.sort, which is stable: x, which came before the sorted
\* entries of l, stays before those it compares equal to.
RECURSIVE InsertSorted(_, _, _)
InsertSorted(ver, x, l) ==
  IF l = <<>> THEN <<x>>
  ELSE IF Compare(ver, x, Head(l)) <= 0 THEN <<x>> \o l
  ELSE <<Head(l)>> \o InsertSorted(ver, x, Tail(l))

RECURSIVE Sort(_, _)
Sort(ver, l) == IF l = <<>> THEN <<>> ELSE InsertSorted(ver, Head(l), Sort(ver, Tail(l)))

\* .filter(m => m.id): an id that is undefined or empty is falsy.
HasId(m) == m.hasId /\ m.id # <<>>

\* The entry stored for an OpenRouter model.
OpenRouterEntry(m) ==
  [id |-> m.id, name |-> NameOrId(m),
   recommended |-> IsFree(m) \/ Contains(m.id, "gemini-2.0-flash")]

\* data.data.filter(...).sort(...).map(...) of the openrouter branch
OpenRouterList(ver, data) ==
  LET sorted == Sort(ver, SelectSeq(data, HasId))
  IN  [i \in 1..Len(sorted) |-> OpenRouterEntry(sorted[i])]

\* .filter(m => m.id.includes('gpt')) reads a property of undefined when an
\* entry has no id: a TypeError.
OpenAIThrows(data) == \E i \in 1..Len(data) : ~data[i].hasId

IsGpt(m) == Contains(m.id, "gpt")

\* The entry stored for an OpenAI model.
OpenAIEntry(m) ==
  [id |-> m.id, name |-> UpperSpaced(m.id),
   recommended |-> m.id = <<"gpt", "-", "4o">> \/ m.id = <<"gpt", "-", "4o", "-", "mini">>]

\* data.data.filter(...).map(...) of the openai branch, when it does not throw
OpenAIList(data) ==
  LET kept == SelectSeq(data, IsGpt)
  IN  [i \in 1..Len(kept) |-> OpenAIEntry(kept[i])]

\* The body of the try block once the fetch has settled with `resp`, for the
\* providers that have a models endpoint: the list app.providerModels holds
\* afterwards (`old` when nothing is assigned), whether modelsFetched was
\* set, and whether the block threw.
TryFetch(ver, provider, resp, old) ==
  IF resp.kind = "status" THEN [list |-> old, fetched |-> FALSE, threw |-> FALSE]
  ELSE IF resp.kind # "ok" THEN [list |-> old, fetched |-> FALSE, threw |-> TRUE]
  ELSE IF provider = "openrouter"
  THEN [list |-> OpenRouterList(ver, resp.data), fetched |-> TRUE, threw |-> FALSE]
  ELSE IF OpenAIThrows(resp.data) THEN [list |-> old, fetched |-> FALSE, threw |-> TRUE]
  ELSE [list |-> OpenAIList(resp.data), fetched |-> TRUE, threw |-> FALSE]

\* A catch block that throws again what it caught.
CatchRethrows(threw) == IF threw THEN "rejected" ELSE "returned"

\* catch (e) { console.error(...) } finally { ... }: whether the try block
\* threw or not, fetchProviderModels returns.
Catch(threw) == "returned"

\* ------------------------------------------------------------ buildPrompt
\* A text of the prompt is a sequence of symbols: a character (" ", "\n",
\* a letter), a word of the scene context, or one of the literals of
\* buildPrompt kept whole ("BEAT TO EXPAND:", "<|im_start|>", ...).
IsSpace(x) == x \in {" ", "\n"}

\* words.slice(-500): the number of words kept
contextLimit == 500

\* The pieces of s[lo..hi] between single whitespace characters, empty
\* pieces included; halving keeps the evaluation shallow on long texts.
RECURSIVE RawSplit(_, _, _)
RawSplit(s, lo, hi) ==
  IF lo > hi THEN <<<<>>>>
  ELSE IF lo = hi THEN (IF IsSpace(s[lo]) THEN <<<<>>, <<>>>> ELSE <<<<s[lo]>>>>)
  ELSE LET mid   == (lo + hi) \div 2
           left  == RawSplit(s, lo, mid)
           right == RawSplit(s, mid + 1, hi)
       IN  SubSeq(left, 1, Len(left) - 1)
             \o <<left[Len(left)] \o right[1]>>
             \o SubSeq(right, 2, Len(right))

NonEmpty(t) == t # <<>>

\* generation.js:19, sceneContext.split(/\s+/): the pieces between runs of
\* whitespace; a text that begins (ends) with whitespace has an empty
\* first (last) piece.
SplitWhitespace(s) ==
  LET raw == RawSplit(s, 1, Len(s))
  IN  IF Len(raw) = 1 THEN raw
      ELSE <<raw[1]>> \o SelectSeq(SubSeq(raw, 2, Len(raw) - 1), NonEmpty)
             \o <<raw[Len(raw)]>>

\* Array.prototype.slice(-n): the last n elements, all of them when fewer.
SliceLast(w, n) == SubSeq(w, IF Len(w) > n THEN Len(w) - n + 1 ELSE 1, Len(w))

\* Array.prototype.join(' ') on w[lo..hi]
RECURSIVE JoinSpace(_, _, _)
JoinSpace(w, lo, hi) ==
  IF lo > hi THEN <<>>
  ELSE IF lo = hi THEN w[lo]
  ELSE LET mid == (lo + hi) \div 2
       IN  JoinSpace(w, lo, mid) \o <<" ">> \o JoinSpace(w, mid + 1, hi)

\* A truncation that keeps one word less.
ContextBlockShort(sceneContext) ==
  IF sceneContext = <<>> THEN <<>>
  ELSE LET words == SliceLast(SplitWhitespace(sceneContext), contextLimit - 1)
       IN  <<"\n", "\n", "CURRENT SCENE SO FAR:", "\n">> \o JoinSpace(words, 1, Len(words))

\* generation.js:17-22, contextText
ContextBlock(sceneContext) ==
  IF sceneContext = <<>> THEN <<>>
  ELSE LET words == SliceLast(SplitWhitespace(sceneContext), contextLimit)
       IN  <<"\n", "\n", "CURRENT SCENE SO FAR:", "\n">> \o JoinSpace(words, 1, Len(words))

\* String.prototype.trim
RECURSIVE TrimStart(_)
TrimStart(t) == IF t # <<>> /\ IsSpace(Head(t)) THEN TrimStart(Tail(t)) ELSE t

RECURSIVE TrimEnd(_)
TrimEnd(t) ==
  IF t # <<>> /\ IsSpace(t[Len(t)]) THEN TrimEnd(SubSeq(t, 1, Len(t) - 1)) ELSE t

Trim(t) == TrimEnd(TrimStart(t))

\* String.prototype.indexOf(part), 0-based; -1 when the part does not occur
IndexOfPart(text, part) ==
  LET at == {i \in 1..(Len(text) - Len(part) + 1) : SubSeq(text, i, i + Len(part) - 1) = part}
  IN  IF at = {} THEN -1 ELSE (CHOOSE i \in at : \A j \in at : i <= j) - 1

\* A JavaScript value of an option: its type and, for a string, its text;
\* for the other types s is what a template literal makes of the value.
Undefined == [t |-> "undefined", s |-> <<"undefined">>]
Str(text) == [t |-> "string", s |-> text]
Number42 == [t |-> "number", s |-> <<"42">>]
True == [t |-> "boolean", s |-> <<"true">>]

\* ToBoolean: undefined and the empty string are falsy.
Truthy(v) == v.t \in {"number", "boolean"} \/ (v.t = "string" /\ v.s # <<>>)

\* generation.js:54, the text the compendium block is spliced in front of
BeatMarker == <<"\n", "\n", "BEAT TO EXPAND:">>

\* generation.js:10, povName; only a string has a trim method
PovNameThrows(options) ==
  options.isNull \/ (Truthy(options.povCharacter) /\ options.povCharacter.t # "string")

PovName(options) ==
  IF Truthy(options.povCharacter) /\ Trim(options.povCharacter.s) # <<>>
  THEN Trim(options.povCharacter.s)
  ELSE <<"the protagonist">>

\* generation.js:11, tenseText
TenseText(options) ==
  IF options.tense = Str(<<"present">>) THEN <<"present tense">> ELSE <<"past tense">>

\* generation.js:12, povText
PovText(options) ==
  IF Truthy(options.pov) THEN options.pov.s ELSE <<"3rd person limited">>

\* generation.js:13-15, systemPrompt
SystemPrompt(options) ==
  <<"You are a co-author tasked with assisting your partner. You are writing a story from the point of view of ">>
    \o PovName(options) \o <<" in ">> \o TenseText(options) \o <<", in ">>
    \o PovText(options) \o <<".">>
    \o <<" You are a creative writing assistant. The author provides a BEAT (what happens next) and you expand it into vivid, engaging prose. Write 2-3 paragraphs that bring the beat to life. Match the author's tone and style. Use sensory details. Show, don't tell.">>

\* generation.js:27, the test on options.prosePrompt
HasTemplate(options) ==
  /\ Truthy(options.prosePrompt)
  /\ options.prosePrompt.t = "string"
  /\ Trim(options.prosePrompt.s) # <<>>

\* The template wrapped in its markers whatever the preview flag.
ProseTemplateTextMarked(options) ==
  IF ~HasTemplate(options) THEN <<>>
  ELSE <<"\n", "\n", "--- PROMPT TEMPLATE START ---", "\n">>
         \o Trim(options.prosePrompt.s)
         \o <<"\n", "--- PROMPT TEMPLATE END ---">>

\* generation.js:26-34, proseTemplateText
ProseTemplateText(options) ==
  IF ~HasTemplate(options) THEN <<>>
  ELSE IF Truthy(options.preview)
  THEN <<"\n", "\n">> \o Trim(options.prosePrompt.s)
  ELSE <<"\n", "\n", "--- PROMPT TEMPLATE START ---", "\n">>
         \o Trim(options.prosePrompt.s)
         \o <<"\n", "--- PROMPT TEMPLATE END ---">>

\* generation.js:42-46, what one entry adds; reading a field of a null
\* entry throws inside the try and the entry is skipped
EntryText(ce) ==
  IF ce.isNull THEN <<>>
  ELSE LET title == IF ce.title # <<>> THEN ce.title ELSE <<"entry ">> \o ce.id
           body  == IF ce.body # <<>> THEN ce.body ELSE ce.description
       IN  <<"\n", "-- ">> \o title \o <<" --", "\n">> \o body \o <<"\n">>

RECURSIVE EntriesText(_)
EntriesText(items) ==
  IF items = <<>> THEN <<>> ELSE EntryText(Head(items)) \o EntriesText(Tail(items))

\* generation.js:38-48, compendiumText
CompendiumText(options) ==
  IF /\ ~Truthy(options.preview)
     /\ options.compendiumEntries.t = "array"
     /\ options.compendiumEntries.items # <<>>
  THEN <<"\n", "\n", "COMPENDIUM REFERENCES:", "\n">>
         \o EntriesText(options.compendiumEntries.items)
  ELSE <<>>

\* generation.js:50, the prompt before the compendium block is spliced in
BasePrompt(beat, sceneContext, options) ==
  <<"<|im_start|>", "system", "\n">> \o SystemPrompt(options)
    \o <<"<|im_end|>", "\n", "<|im_start|>", "user", "\n">>
    \o ContextBlock(sceneContext) \o ProseTemplateText(options)
    \o <<"\n", "\n", "BEAT TO EXPAND:", "\n">> \o beat
    \o <<"\n", "\n", "Write the next 2-3 paragraphs:", "<|im_end|>", "\n",
          "<|im_start|>", "assistant", "\n">>

\* A splice that puts the block in the place of what follows it.
SpliceReplaces(prompt, compendiumText) ==
  IF compendiumText = <<>> THEN prompt
  ELSE SubSeq(prompt, 1, IndexOfPart(prompt, BeatMarker)) \o compendiumText \o <<"\n">>

\* generation.js:53-61: the block goes in front of the first occurrence of
\* the marker; the base prompt always holds one
Splice(prompt, compendiumText) ==
  IF compendiumText = <<>> THEN prompt
  ELSE LET insertAt == IndexOfPart(prompt, BeatMarker)
       IN  SubSeq(prompt, 1, insertAt) \o compendiumText \o <<"\n">>
             \o SubSeq(prompt, insertAt + 1, Len(prompt))

\* generation.js:6-62, buildPrompt: whether it threw and, when it did not,
\* the prompt it returned
buildPrompt(beat, sceneContext, options) ==
  IF PovNameThrows(options)
  THEN [threw |-> TRUE, text |-> <<>>]
  ELSE [threw |-> FALSE,
        text  |-> Splice(BasePrompt(beat, sceneContext, options), CompendiumText(options))]

\* The arguments of the sample calls.
NoEntries == [t |-> "undefined", items |-> <<>>]
NotAnArray == [t |-> "string", items |-> <<>>]
Entries(items) == [t |-> "array", items |-> items]

NullEntry == [isNull |-> TRUE, title |-> <<>>, id |-> <<>>, body |-> <<>>, description |-> <<>>]
EntryTitled ==
  [isNull |-> FALSE, title |-> <<"Ann">>, id |-> <<"c1">>, body |-> <<"a", " ", "spy">>,
   description |-> <<>>]
EntryUntitled ==
  [isNull |-> FALSE, title |-> <<>>, id |-> <<"c2">>, body |-> <<>>,
   description |-> <<"a", " ", "key">>]

DefaultOptions ==
  [isNull |-> FALSE, povCharacter |-> Undefined, tense |-> Undefined, pov |-> Undefined,
   prosePrompt |-> Undefined, preview |-> Undefined, compendiumEntries |-> NoEntries]

\* options = null: the default parameter value is not applied
NullOptions == [DefaultOptions EXCEPT !.isNull = TRUE]

TemplateWithMarker == <<"S", "t", "y", "l", "e", "\n", "\n", "BEAT TO EXPAND:", "\n", "x">>
NameWithMarker == <<"A", "n", "n", "\n", "\n", "BEAT TO EXPAND:", " ", "B">>

CrossedOptions ==
  {[DefaultOptions EXCEPT !.povCharacter = pc, !.prosePrompt = pp, !.preview = pv,
                          !.compendiumEntries = ce] :
     pc \in {Undefined, Str(NameWithMarker)},
     pp \in {Undefined, Str(<<"N", "o", "i", "r">>), Str(TemplateWithMarker)},
     pv \in {Undefined, True},
     ce \in {NoEntries, Entries(<<NullEntry, EntryTitled>>)}}

SingleOptions ==
  {NullOptions,
   [DefaultOptions EXCEPT !.povCharacter = Str(<<" ", "A", "n", "n", "\n">>)],
   [DefaultOptions EXCEPT !.povCharacter = Str(<<" ">>)],
   [DefaultOptions EXCEPT !.povCharacter = Number42],
   [DefaultOptions EXCEPT !.tense = Str(<<"present">>)],
   [DefaultOptions EXCEPT !.tense = Str(<<"future">>)],
   [DefaultOptions EXCEPT !.tense = Number42],
   [DefaultOptions EXCEPT !.pov = Str(<<"1st person">>)],
   [DefaultOptions EXCEPT !.pov = Number42],
   [DefaultOptions EXCEPT !.prosePrompt = Number42],
   [DefaultOptions EXCEPT !.prosePrompt = Str(<<" ", "\n">>)],
   [DefaultOptions EXCEPT !.compendiumEntries = NotAnArray],
   [DefaultOptions EXCEPT !.compendiumEntries = Entries(<<>>)],
   [DefaultOptions EXCEPT !.compendiumEntries = Entries(<<NullEntry>>)],
   [DefaultOptions EXCEPT !.compendiumEntries = Entries(<<EntryUntitled>>)]}

SampleBeats == {<<>>, <<"S", "h", "e", " ", "r", "a", "n">>}

\* beat, sceneContext and options of the sample calls
PromptInputs ==
  {[beat |-> b, sceneContext |-> <<"I", "t", " ", "r", "a", "i", "n", "s">>, options |-> o] :
     b \in SampleBeats, o \in CrossedOptions}
  \cup {[beat |-> <<"S", "h", "e", " ", "r", "a", "n">>,
          sceneContext |-> <<"I", "t", " ", "r", "a", "i", "n", "s">>, options |-> o] :
          o \in SingleOptions}
  \cup {[beat |-> b, sceneContext |-> <<>>, options |-> DefaultOptions] : b \in SampleBeats}

\* No call of buildPrompt yet.
NoCall == [called |-> FALSE, input |-> [beat |-> <<>>, sceneContext |-> <<>>, options |-> DefaultOptions],
           result |-> [threw |-> FALSE, text |-> <<>>]]

\* The scene contexts of the truncation: n words, the whitespace in front
\* of them, between them and behind them.
WordCounts == {0, 1, 2, 3, 499, 500, 501, 502}
Margins == {<<>>, <<" ">>, <<"\n", " ">>}
Separators == {<<" ">>, <<"\n", "\n">>}

Word(k) == <<ToString(k)>>

RECURSIVE WordsText(_, _, _)
WordsText(lo, hi, sep) ==
  IF lo > hi THEN <<>>
  ELSE IF lo = hi THEN Word(lo)
  ELSE LET mid == (lo + hi) \div 2
       IN  WordsText(lo, mid, sep) \o sep \o WordsText(mid + 1, hi, sep)

ContextOf(n, lead, sep, trail) == lead \o WordsText(1, n, sep) \o trail

LongContexts ==
  {ContextOf(n, lead, sep, trail) :
     n \in WordCounts, lead \in Margins, sep \in Separators, trail \in Margins}

\* ---------------------------------------------------- CompendiumManager
\* The ids the entry store hands out, the categories and the values of the
\* editable fields in use.
EntryIds == {1, 2}
Categories == {"characters", "places"}
Titles == {"New Entry", "Ann"}
TagLists == {<<>>, <<"x">>}

\* null
Null == <<>>

\* An entry as window.Compendium.getEntry returns it.
Entry(id, category, title, tags) ==
  [id |-> id, category |-> category, title |-> title, tags |-> tags]

\* A pending action { type, id, category }; id is 0 and category is ""
\* where the action has none. For 'moveToCategory' category is newCategory.
Action(type, id, category) == [type |-> type, id |-> id, category |-> category]

\* isCompendiumDirty(app): the editable fields of the current entry against
\* the snapshot; false when either is missing.
isCompendiumDirty(curr, orig) ==
  IF curr = Null \/ orig = Null THEN FALSE
  ELSE \/ curr[1].title # orig[1].title
       \/ Len(curr[1].tags) # Len(orig[1].tags)
       \/ \E i \in 1..Len(curr[1].tags) : curr[1].tags[i] # orig[1].tags[i]

\* addCompTag: the tag is pushed unless the entry has it.
WithTag(tags, tag) ==
  IF \E i \in 1..Len(tags) : tags[i] = tag THEN tags ELSE Append(tags, tag)

\* removeCompTag: tags.splice(index, 1), index counted from 0.
WithoutTagAt(tags, index) ==
  IF index + 1 \in 1..Len(tags)
  THEN SubSeq(tags, 1, index) \o SubSeq(tags, index + 2, Len(tags))
  ELSE tags

\* ------------------------------------------------------------ start.bat
\* The times start.bat is started in one run.
MaxStarts == 3

\* The updates staged in one run.
MaxStaged == 2

\* ----------------------------------------------------------- TTS module
\* The utterances one run makes.
MaxUtterances == 5

\* ------------------------------------------------------- Prompts module
\* The prompts of the current project in db.prompts: at most MaxPrompts of
\* them, their ids in the order they were made (an id starts with the
\* Date.now() of its making).
MaxPrompts == 4
PromptIds == 1..MaxPrompts
PromptCategories == {"prose", "rewrite"}

\* An import file's prompts, by category; "" stands for a missing one.
ImportFiles ==
  {<<c>> : c \in PromptCategories \cup {""}}
  \cup {<<c, d>> : c \in PromptCategories, d \in PromptCategories}

\* A stored prompt: what the order depends on.
Prompt(category, modified) == [category |-> category, modified |-> modified]

\* The ids of the category's prompts.
CategoryIds(store, category) ==
  {i \in PromptIds : store[i] # Null /\ store[i][1].category = category}

\* db.prompts.where('projectId').equals(..).and(x => x.category ===
\* category).sortBy('modified'): the collection comes in primary-key order
\* and the sort is stable, so prompts with one timestamp stay in id order.
CategoryList(store, category) ==
  LET ids == CategoryIds(store, category)
      Before(i, j) == \/ store[i][1].modified < store[j][1].modified
                      \/ store[i][1].modified = store[j][1].modified /\ i < j
  IN  [k \in 1..Cardinality(ids) |->
         CHOOSE i \in ids : Cardinality({j \in ids : Before(j, i)}) = k - 1]

\* list.findIndex(x => x.id === id), counted from 1; 0 when absent
FindIndex(list, id) ==
  IF \E k \in 1..Len(list) : list[k] = id
  THEN CHOOSE k \in 1..Len(list) : list[k] = id
  ELSE 0

\* The two updates of movePromptUp / movePromptDown: the timestamps of p
\* and of its neighbour change places.
SwapModified(store, id, other) ==
  [store EXCEPT ![id] = <<[@[1] EXCEPT !.modified = store[other][1].modified]>>,
                ![other] = <<[@[1] EXCEPT !.modified = store[id][1].modified]>>]

\* movePromptUp(app, id): the store as it leaves it
movePromptUp(store, id) ==
  IF store[id] = Null THEN store
  ELSE LET list == CategoryList(store, store[id][1].category)
           idx  == FindIndex(list, id)
       IN  IF idx <= 1 THEN store ELSE SwapModified(store, id, list[idx - 1])

\* movePromptDown(app, id): the store as it leaves it
movePromptDown(store, id) ==
  IF store[id] = Null THEN store
  ELSE LET list == CategoryList(store, store[id][1].category)
           idx  == FindIndex(list, id)
       IN  IF idx = 0 \/ idx >= Len(list) THEN store
           ELSE SwapModified(store, id, list[idx + 1])

\* The record of the latest move: the prompt, the direction and the
\* category's list before it.
Move(id, dir, before) == [id |-> id, dir |-> dir, before |-> before]
NoMove == Move(0, "none", <<>>)

\* What an operation leaves in the record of the latest operation: the
\* action it handed to the guard, the action it ran, and on whose word
\* ("direct", "save", "discard"; "none" when it ran nothing).
Op(requested, ran, how) == [requested |-> requested, ran |-> ran, how |-> how]

\* The operations below take the app and the entry store as one record `a`
\* (store, cur, orig, dirty, pending, modal, panel, open, op) and return it
\* as they leave it. `ok` tells whether the calls of window.Compendium the
\* operation awaits succeed or throw.

\* storeCompendiumOriginal(app)
storeCompendiumOriginal(a) == [a EXCEPT !.orig = a.cur, !.dirty = FALSE]

\* updateCompendiumDirtyFlag(app)
updateCompendiumDirtyFlag(a) == [a EXCEPT !.dirty = isCompendiumDirty(a.cur, a.orig)]

\* The selection cleared together with its snapshot and the dirty flag.
ClearSelection(a) == [a EXCEPT !.cur = Null, !.orig = Null, !.dirty = FALSE]

\* A guard that lets every action through.
guardCompendiumActionOpen(a, action, proceeded) ==
  [proceeded EXCEPT !.op = Op(<<action>>, <<action>>, "direct")]

\* guardCompendiumAction(app, action, proceed); `proceeded` is the app as
\* proceed() leaves it.
guardCompendiumAction(a, action, proceeded) ==
  IF a.dirty
  THEN [a EXCEPT !.pending = <<action>>, !.modal = TRUE, !.op = Op(<<action>>, Null, "none")]
  ELSE [proceeded EXCEPT !.op = Op(<<action>>, <<action>>, "direct")]

\* _doSelectCompendiumEntry(app, id)
doSelectCompendiumEntry(a, id, ok) ==
  IF ok THEN storeCompendiumOriginal([a EXCEPT !.cur = a.store[id]]) ELSE a

\* _doCloseCompendium(app)
doCloseCompendium(a) == [ClearSelection(a) EXCEPT !.panel = FALSE]

\* _doLoadCompendiumCategory(app, category)
doLoadCompendiumCategory(a, category) ==
  IF category \notin a.open THEN a
  ELSE LET closed == [a EXCEPT !.open = @ \ {category}]
       IN  IF a.cur # Null /\ a.cur[1].category = category
           THEN ClearSelection(closed) ELSE closed

\* _doCreateCompendiumEntry(app, category): createEntry hands out the
\* smallest free id and throws when there is none.
doCreateCompendiumEntry(a, category, ok, ok2) ==
  LET free == {id \in EntryIds : a.store[id] = Null}
  IN  IF ~ok \/ free = {} THEN a
      ELSE LET id == CHOOSE i \in free : \A j \in free : i <= j
               created == [a EXCEPT !.store[id] = <<Entry(id, category, "New Entry", <<>>)>>,
                                    !.open = @ \cup {category}]
           IN  doSelectCompendiumEntry(created, id, ok2)

\* _doMoveCompendiumEntryToCategory(app, id, newCategory)
doMoveCompendiumEntryToCategory(a, id, newCategory, ok) ==
  IF ~ok THEN a
  ELSE LET moved == IF a.store[id] = Null THEN a
                    ELSE [a EXCEPT !.store[id] = <<[@[1] EXCEPT !.category = newCategory]>>]
       IN  IF a.cur # Null /\ a.cur[1].id = id THEN ClearSelection(moved) ELSE moved

\* The switch of executePendingCompendiumAction.
RunAction(a, action, ok, ok2) ==
  CASE action.type = "select" -> doSelectCompendiumEntry(a, action.id, ok)
    [] action.type = "close" -> doCloseCompendium(a)
    [] action.type = "category" -> doLoadCompendiumCategory(a, action.category)
    [] action.type = "create" -> doCreateCompendiumEntry(a, action.category, ok, ok2)
    [] action.type = "moveToCategory" ->
         doMoveCompendiumEntryToCategory(a, action.id, action.category, ok)

\* executePendingCompendiumAction(app), called for the button `how`
executePendingCompendiumAction(a, how, ok, ok2) ==
  LET action == a.pending
      shut   == [a EXCEPT !.pending = Null, !.modal = FALSE, !.op = Op(Null, action, how)]
  IN  IF action = Null THEN shut ELSE RunAction(shut, action[1], ok, ok2)

\* saveCompendiumEntry(app): updateEntry writes the editable fields; its
\* failure is caught inside and nothing tells the caller.
saveCompendiumEntry(a, ok) ==
  IF a.cur = Null \/ ~ok THEN a
  ELSE LET id == a.cur[1].id
           written == IF a.store[id] = Null THEN a
                      ELSE [a EXCEPT !.store[id] =
                              <<[@[1] EXCEPT !.title = a.cur[1].title, !.tags = a.cur[1].tags]>>]
       IN  storeCompendiumOriginal(written)

\* saveAndProceedCompendium(app)
saveAndProceedCompendium(a, saveOk, ok, ok2) ==
  executePendingCompendiumAction(saveCompendiumEntry(a, saveOk), "save", ok, ok2)

\* discardAndProceedCompendium(app)
discardAndProceedCompendium(a, ok, ok2) ==
  executePendingCompendiumAction([a EXCEPT !.dirty = FALSE, !.orig = Null], "discard", ok, ok2)

\* cancelCompendiumAction(app)
cancelCompendiumAction(a) ==
  [a EXCEPT !.pending = Null, !.modal = FALSE, !.op = Op(Null, Null, "cancel")]

\* deleteCompendiumEntry(app, id), the confirm dialog answered with yes
deleteCompendiumEntry(a, id, ok) ==
  IF ~ok THEN a ELSE [a EXCEPT !.store[id] = Null, !.cur = Null]

\* ------------------------------------------- concurrent generation calls
\* Two invocations of streamGeneration whose reads interleave.
Generations == {1, 2}

\* The responses the concurrent calls are given: content frames and a stop,
\* a frame with content and stop followed by an unterminated tail, a
\* malformed frame before a content frame, and an empty response.
SampleBodies ==
  {Utf8Encode(WithNewlines(<<FrameHi, FrameStop>>)),
   Utf8Encode(WithNewlines(<<FrameOkStop>>) \o FrameHi),
   Utf8Encode(WithNewlines(<<FrameBad, FrameHi>>)),
   <<>>}

\* One buffer for all the calls, as a variable of the module would be.
LetBufferShared(c) == 1

\* generation.js:85, let buffer = '': a variable of the invocation, so call
\* c reads and writes the cell of its own.
LetBuffer(c) == c

\* A generation call not yet made, the response it will be given being b.
NotCalled(b) ==
  [body |-> b, pc |-> "init", pos |-> 0, held |-> <<>>, calls |-> <<>>,
   stopSeen |-> FALSE, stopAt |-> 0]

\* ------------------------------------------------------------------- state
VARIABLES
  body,       \* the bytes of the response body the backend sends
  throwsOn,   \* the contents on which the caller's onToken throws
  pc,         \* "init", "reading", "done" or "failed"
  requests,   \* number of POSTs issued
  pos,        \* bytes of the body read so far
  held,       \* bytes the TextDecoder holds back between calls
  buffer,     \* generation.js:85, let buffer
  calls,      \* the arguments of the onToken calls, in order
  error,      \* what streamGeneration rejected with, "none" when it did not
  stopSeen,   \* a frame carrying stop = true has been parsed
  stopAt,     \* Len(calls) right after that frame was handled
  wasSplit,   \* some read ended inside a line
  requestUrl, \* the URL of the POST, <<>> before it is issued
  version,    \* which saveAISettings is installed: "retry" or "single"
  config,     \* the settings in the app
  aiStatus,   \* app.aiStatus
  showModelLoading,  \* app.showModelLoading
  hideTimers, \* pending setTimeout(() => { app.showModelLoading = false }, 500)
  cpc,        \* per call: "idle", "probing", "hung", "waiting" or "done"
  attempt,    \* per call: probes issued (let attempt in the retrying version)
  connected,  \* per call: the cycle reached its success branch
  okSeen,     \* per call: a probe of the call ended with a success status
  startStatus,\* per call: app.aiStatus when the call started
  errorMessage,  \* per call: e.message of the Error its catch block alerted
  stored,     \* localStorage 'writingway:aiSettings': <<>> or <<the record>>
  aiEndpoint, \* app.aiEndpoint, "" when the field is empty
  spent,      \* ms gone by since the timed test cycle began
  gen,        \* per concurrent generation call: its body, position and calls
  buffers,    \* the buffer cells of the concurrent generation calls
  aiProvider, \* app.aiProvider
  fpc,        \* per fetchProviderModels call: "idle", "fetching", "returned", "rejected"
  fetchingModels,  \* app.fetchingModels
  modelsFetched,   \* app.modelsFetched
  providerModels,  \* app.providerModels[app.aiProvider]
  response,   \* what the provider's models endpoint answers
  earlier,    \* a call of buildPrompt made before the latest one
  latest,     \* the latest call of buildPrompt: its arguments and its result
  sceneContext,  \* the scene context handed to buildPrompt
  contextText,   \* generation.js:17, let contextText
  temperature,   \* app.temperature, a decimal numeral
  maxTokens,     \* app.maxTokens, a decimal numeral
  lpc,           \* loadAISettings: "idle", "fetching" (awaiting the catalog) or "loaded"
  settings,      \* loadAISettings: const settings, <<>> before it is parsed
  compendium,    \* the entry store behind window.Compendium, per id
  currentCompEntry,         \* app.currentCompEntry, Null or <<entry>>
  compendiumOriginalEntry,  \* app.compendiumOriginalEntry, Null or <<snapshot>>
  compendiumDirty,          \* app.compendiumDirty
  pendingCompendiumAction,  \* app.pendingCompendiumAction, Null or <<action>>
  showCompendiumUnsavedModal,  \* app.showCompendiumUnsavedModal
  showCodexPanel,           \* app.showCodexPanel
  openCompCategories,       \* app.openCompCategories, as a set
  lastOp,        \* the latest operation: what it asked for and what it ran
  prompts,       \* db.prompts of the current project, per id: Null or <<prompt>>
  now,           \* the clock new Date() reads
  lastMove,      \* the latest movePromptUp / movePromptDown, NoMove after any other
  currentUtterance,  \* TTS.currentUtterance: 0 for null, else the utterance's number
  isPaused,      \* TTS.isPaused
  synth,         \* the utterance speechSynthesis holds (synth.speaking), 0 for none
  started,       \* whether that utterance's start event was delivered
  cancelled,     \* the cancelled utterances whose end / error event is still to come
  made,          \* the utterances speak has made
  bpc,           \* start.bat: the line it is about to run, "done" at :update_done,
                 \* "app" once it has started the app
  readyJson,     \* .update\ready.json exists
  latestZip,     \* .update\latest.zip exists
  extractDir,    \* .update\extract: "absent", "empty" or "root" (holds a folder)
  errorlevel,    \* the class of %errorlevel% robocopy left: "none", "ok" or "error"
  applied,       \* the times robocopy copied an update over the installation
  starts,        \* the times start.bat was started
  staged         \* the updates staged so far

streamVars == <<body, throwsOn, pc, requests, pos, held, buffer, calls, error,
                stopSeen, stopAt, wasSplit, requestUrl>>

connVars == <<version, config, aiStatus, showModelLoading, hideTimers, cpc,
              attempt, connected, okSeen, startStatus, errorMessage, stored>>

pairVars == <<gen, buffers>>

catalogVars == <<aiProvider, fpc, fetchingModels, modelsFetched, providerModels, response>>

promptVars == <<earlier, latest, sceneContext, contextText>>

settingsVars == <<temperature, maxTokens, lpc, settings>>

promptStoreVars == <<prompts, now, lastMove>>

ttsVars == <<currentUtterance, isPaused, synth, started, cancelled, made>>

batVars == <<bpc, readyJson, latestZip, extractDir, errorlevel, applied, starts, staged>>

compVars == <<compendium, currentCompEntry, compendiumOriginalEntry, compendiumDirty,
              pendingCompendiumAction, showCompendiumUnsavedModal, showCodexPanel,
              openCompCategories, lastOp>>

vars == <<streamVars, connVars, aiEndpoint, spent, pairVars, catalogVars, promptVars,
        settingsVars,
        compVars,
        promptStoreVars,
        ttsVars,
        batVars>>

\* What streamGeneration never writes.
restOfStream == <<connVars, aiEndpoint, spent, pairVars, catalogVars, promptVars,
        settingsVars,
        compVars,
        promptStoreVars,
        ttsVars,
        batVars>>

\* What saveAISettings never writes; the clock `spent` is the environment's.
restOfConn == <<streamVars, aiEndpoint, pairVars, catalogVars, promptVars,
        settingsVars,
        compVars,
        promptStoreVars,
        ttsVars,
        batVars>>

\* No generation call: the state of streamGeneration before it is called.
StreamIdle ==
  /\ pc = "init"
  /\ requests = 0
  /\ pos = 0
  /\ held = <<>>
  /\ buffer = <<>>
  /\ calls = <<>>
  /\ error = "none"
  /\ stopSeen = FALSE
  /\ stopAt = 0
  /\ wasSplit = FALSE
  /\ requestUrl = <<>>

\* No connection test: the app as loaded, no saveAISettings call made.
ConnIdle ==
  /\ aiStatus = "idle"
  /\ showModelLoading = FALSE
  /\ hideTimers = 0
  /\ cpc = [c \in Calls |-> "idle"]
  /\ attempt = [c \in Calls |-> 0]
  /\ connected = [c \in Calls |-> FALSE]
  /\ okSeen = [c \in Calls |-> FALSE]
  /\ startStatus = [c \in Calls |-> "none"]
  /\ errorMessage = [c \in Calls |-> NoMessage]
  /\ stored = <<>>

\* start.bat started for the first time, nothing staged.
BatIdle ==
  /\ bpc = "15"
  /\ readyJson = FALSE
  /\ latestZip = FALSE
  /\ extractDir = "absent"
  /\ errorlevel = "none"
  /\ applied = 0
  /\ starts = 1
  /\ staged = 0

\* TTS as the module leaves it, nothing spoken yet.
TtsIdle ==
  /\ currentUtterance = 0
  /\ isPaused = FALSE
  /\ synth = 0
  /\ started = FALSE
  /\ cancelled = {}
  /\ made = 0

\* No stored prompt, no move made.
PromptStoreIdle ==
  /\ prompts = [id \in PromptIds |-> Null]
  /\ now = 1
  /\ lastMove = NoMove

\* The compendium panel closed, nothing selected, an empty store.
CompIdle ==
  /\ compendium = [id \in EntryIds |-> Null]
  /\ currentCompEntry = Null
  /\ compendiumOriginalEntry = Null
  /\ compendiumDirty = FALSE
  /\ pendingCompendiumAction = Null
  /\ showCompendiumUnsavedModal = FALSE
  /\ showCodexPanel = FALSE
  /\ openCompCategories = {}
  /\ lastOp = Op(Null, Null, "none")

\* The generation parameters at their defaults, loadAISettings not called.
SettingsIdle ==
  /\ temperature = "0.8"
  /\ maxTokens = "300"
  /\ lpc = "idle"
  /\ settings = <<>>

\* buildPrompt has not been called.
PromptIdle ==
  /\ earlier = NoCall
  /\ latest = NoCall
  /\ sceneContext = <<>>
  /\ contextText = <<>>

\* No concurrent generation calls.
PairIdle ==
  /\ gen = [c \in Generations |-> NotCalled(<<>>)]
  /\ buffers = [c \in Generations |-> <<>>]

\* No fetchProviderModels call: the catalog is the list the app is built
\* with, the provider the default of loadAISettings.
CatalogIdle ==
  /\ aiProvider = "anthropic"
  /\ fpc = [f \in FetchCalls |-> "idle"]
  /\ fetchingModels = FALSE
  /\ modelsFetched = FALSE
  /\ providerModels = Hardcoded
  /\ response = [kind |-> "network", data |-> <<>>]

InitStream ==
  /\ body \in Bodies
  /\ StreamIdle
  /\ throwsOn \in SUBSET {tok \in Throwing : Occurs(Utf8Encode(<<"KC">> \o tok), body)}
  /\ version = "retry"
  /\ config = [aiMode |-> "local", aiApiKey |-> FALSE, aiModel |-> FALSE]
  /\ ConnIdle
  /\ aiEndpoint = ""
  /\ spent = 0
  /\ PairIdle
  /\ CatalogIdle
  /\ PromptIdle
  /\ SettingsIdle
  /\ CompIdle
  /\ PromptStoreIdle
  /\ TtsIdle
  /\ BatIdle

\* A status that is not ok answered by another request.
FetchRetries ==
  /\ pc = "init"
  /\ requests' = requests + 1
  /\ \E outcome \in {"ok", "status", "network"} :
       IF outcome = "ok" THEN pc' = "reading" /\ error' = "none"
       ELSE IF outcome = "status" THEN pc' = "init" /\ error' = "status"
       ELSE pc' = "failed" /\ error' = outcome
  /\ requestUrl' = CompletionUrl(aiEndpoint)
  /\ UNCHANGED <<body, throwsOn, pos, held, buffer, calls, stopSeen, stopAt, wasSplit>>
  /\ UNCHANGED restOfStream

\* generation.js:66-85: the POST, the status test, reader and buffer set up.
Fetch ==
  /\ pc = "init"
  /\ requests' = requests + 1
  /\ \E outcome \in {"ok", "status", "network"} :
       IF outcome = "ok"
       THEN pc' = "reading" /\ error' = "none"
       ELSE pc' = "failed" /\ error' = outcome
  /\ requestUrl' = CompletionUrl(aiEndpoint)
  /\ UNCHANGED <<body, throwsOn, pos, held, buffer, calls, stopSeen, stopAt, wasSplit>>
  /\ UNCHANGED restOfStream

\* generation.js:88-111: one reader.read() that delivers the next n bytes,
\* and the synchronous handling of the chunk.
Read ==
  /\ pc = "reading"
  /\ pos < Len(body)
  /\ \E n \in 1..(Len(body) - pos) :
       LET value == SubSeq(body, pos + 1, pos + n)
           dec   == Decode(held, value)
           segs  == Split(buffer \o dec.text)
           st    == ProcessLines(CompleteLines(segs),
                                 LoopStart(calls, stopSeen, stopAt), throwsOn)
       IN  /\ pos' = pos + n
           /\ held' = dec.pending
           /\ buffer' = PoppedTail(segs)
           /\ calls' = st.calls
           /\ stopSeen' = st.stopSeen
           /\ stopAt' = st.stopAt
           /\ wasSplit' = (wasSplit \/ (segs[Len(segs)] # <<>> /\ pos + n < Len(body)))
           /\ IF st.raised # "none" THEN pc' = "failed" /\ error' = st.raised
              ELSE IF st.returned THEN pc' = "done" /\ error' = error
              ELSE pc' = "reading" /\ error' = error
  /\ UNCHANGED <<body, throwsOn, requests, requestUrl>>
  /\ UNCHANGED restOfStream

\* A reader that handles what is left in the buffer as a last line when
\* the source signals completion.
ReadDoneFlushes ==
  /\ pc = "reading"
  /\ pos = Len(body)
  /\ LET st == ProcessLines(<<buffer>>, LoopStart(calls, stopSeen, stopAt), throwsOn)
     IN  /\ calls' = st.calls
         /\ stopSeen' = st.stopSeen
         /\ stopAt' = st.stopAt
  /\ pc' = "done"
  /\ UNCHANGED <<body, throwsOn, requests, pos, held, buffer, error, wasSplit, requestUrl>>
  /\ UNCHANGED restOfStream

\* generation.js:88-89: the source signals completion, the loop breaks.
ReadDone ==
  /\ pc = "reading"
  /\ pos = Len(body)
  /\ pc' = "done"
  /\ UNCHANGED <<body, throwsOn, requests, pos, held, buffer, calls, error,
                 stopSeen, stopAt, wasSplit, requestUrl>>
  /\ UNCHANGED restOfStream

\* generation.js:88: reader.read() rejects (the connection breaks); the
\* await is outside every try block.
ReadError ==
  /\ pc = "reading"
  /\ pc' = "failed"
  /\ error' = "transport"
  /\ UNCHANGED <<body, throwsOn, requests, pos, held, buffer, calls,
                 stopSeen, stopAt, wasSplit, requestUrl>>
  /\ UNCHANGED restOfStream

NextStream == Fetch \/ Read \/ ReadDone \/ ReadError

SpecStream == InitStream /\ [][NextStream]_vars

\* ------------------------------------------------ saveAISettings, actions
InitConn ==
  /\ body = <<>>
  /\ throwsOn = {}
  /\ StreamIdle
  /\ version \in {"retry", "single"}
  /\ config \in Configs
  /\ ConnIdle
  /\ aiEndpoint = ""
  /\ spent = 0
  /\ PairIdle
  /\ CatalogIdle
  /\ PromptIdle
  /\ SettingsIdle
  /\ CompIdle
  /\ PromptStoreIdle
  /\ TtsIdle
  /\ BatIdle

\* The end of a call in its success branch: aiStatus = 'ready', the loading
\* overlay is hidden 500 ms later.
Succeed(c) ==
  /\ aiStatus' = "ready"
  /\ hideTimers' = hideTimers + 1
  /\ cpc' = [cpc EXCEPT ![c] = "done"]
  /\ connected' = [connected EXCEPT ![c] = TRUE]
  /\ errorMessage' = errorMessage

\* The end of a call in its catch block, e.message being `msg`.
Fail(c, msg) ==
  /\ aiStatus' = FailStatus(aiStatus)
  /\ errorMessage' = [errorMessage EXCEPT ![c] = msg]
  /\ showModelLoading' = FALSE
  /\ hideTimers' = hideTimers
  /\ cpc' = [cpc EXCEPT ![c] = "done"]
  /\ connected' = connected

\* A probe is issued: attempt++ and fetch(endpoint + '/health').
Probe(c) ==
  /\ cpc' = [cpc EXCEPT ![c] = "probing"]
  /\ attempt' = [attempt EXCEPT ![c] = @ + 1]
  /\ UNCHANGED <<aiStatus, hideTimers, connected, errorMessage>>

\* saveAISettings(app) up to its first await: the overlay is shown; in local
\* mode the first probe is issued; in api mode there is no await and the
\* call runs to its end.
SaveStart(c) ==
  /\ cpc[c] = "idle"
  /\ startStatus' = [startStatus EXCEPT ![c] = aiStatus]
  /\ stored' = <<Settings(config, aiProvider, aiEndpoint, temperature, maxTokens)>>
  /\ IF config.aiMode = "local"
     THEN /\ Probe(c)
          /\ showModelLoading' = TRUE
     ELSE /\ attempt' = attempt
          /\ IF ApiValidation(version, config) = NoMessage
             THEN /\ Succeed(c)
                  /\ showModelLoading' = TRUE
             ELSE Fail(c, ApiValidation(version, config))
  /\ UNCHANGED <<version, config, okSeen>>
  /\ UNCHANGED restOfConn

\* The awaited fetch of a probe settles. In the retrying version the probe's
\* 5 s timer can abort it; in the single-probe version there is no timer. A
\* probe the server never answers ("hung") can only be ended by that timer.
ProbeEnds(c, result) ==
  /\ cpc[c] \in {"probing", "hung"}
  /\ result = "timeout" => version = "retry"
  /\ cpc[c] = "hung" => result = "timeout"
  /\ okSeen' = [okSeen EXCEPT ![c] = @ \/ result = "ok"]
  /\ LET next == IF version = "retry" THEN LoopStep(result, attempt[c])
                                       ELSE SingleStep(result)
     IN  \/ /\ next = "ready"
            /\ Succeed(c)
            /\ attempt' = attempt
            /\ showModelLoading' = showModelLoading
         \/ /\ next = "error"
            /\ Fail(c, ProbeFailure(version, result, attempt[c]))
            /\ attempt' = attempt
         \/ next = "probe" /\ Probe(c) /\ showModelLoading' = showModelLoading
         \/ /\ next = "wait"
            /\ cpc' = [cpc EXCEPT ![c] = "waiting"]
            /\ UNCHANGED <<attempt, aiStatus, hideTimers, connected, showModelLoading,
                           errorMessage>>
  /\ UNCHANGED <<version, config, startStatus, stored>>
  /\ UNCHANGED restOfConn

ProbeResolve(c) == \E result \in ProbeResults : ProbeEnds(c, result)

\* The server accepts the probe and never answers it.
ProbeHangs(c) ==
  /\ cpc[c] = "probing"
  /\ cpc' = [cpc EXCEPT ![c] = "hung"]
  /\ UNCHANGED <<version, config, aiStatus, showModelLoading, hideTimers,
                 attempt, connected, okSeen, startStatus, errorMessage, stored>>
  /\ UNCHANGED restOfConn

\* The retry delay has elapsed: the loop's next iteration issues a probe.
DelayElapsed(c) ==
  /\ cpc[c] = "waiting"
  /\ Probe(c)
  /\ UNCHANGED <<version, config, showModelLoading, okSeen, startStatus, stored>>
  /\ UNCHANGED restOfConn

\* setTimeout(() => { app.showModelLoading = false; }, 500) fires.
HideLoading ==
  /\ hideTimers > 0
  /\ hideTimers' = hideTimers - 1
  /\ showModelLoading' = FALSE
  /\ UNCHANGED <<version, config, aiStatus, cpc, attempt, connected, okSeen, startStatus,
                 errorMessage, stored>>
  /\ UNCHANGED restOfConn

\* The steps that continue call c once it has started.
CallStep(c) == ProbeResolve(c) \/ DelayElapsed(c)

\* The steps of the test cycles, the clock left out of the account.
NextConn ==
  \/ \E c \in Calls : SaveStart(c) /\ UNCHANGED spent
  \/ \E c \in Calls : ProbeResolve(c) /\ UNCHANGED spent
  \/ \E c \in Calls : ProbeHangs(c) /\ UNCHANGED spent
  \/ \E c \in Calls : DelayElapsed(c) /\ UNCHANGED spent
  \/ HideLoading /\ UNCHANGED spent

SpecConn == InitConn /\ [][NextConn]_vars

\* ------------------------------------- one generation call in the app
\* generation.js:88: the backend stops sending and leaves the stream open,
\* the awaited reader.read() does not settle.
Stalls ==
  /\ pc = "reading"
  /\ pc' = "stalled"
  /\ UNCHANGED <<body, throwsOn, requests, pos, held, buffer, calls, error,
                 stopSeen, stopAt, wasSplit, requestUrl>>
  /\ UNCHANGED restOfStream

\* The steps of the generation call.
StreamStep == Fetch \/ Read \/ ReadDone \/ ReadError \/ Stalls

\* The app in local mode with its endpoint field set; one test cycle and
\* one generation call may run.
InitCall ==
  /\ body \in SampleBodies
  /\ throwsOn = {}
  /\ StreamIdle
  /\ version \in {"retry", "single"}
  /\ config = [aiMode |-> "local", aiApiKey |-> FALSE, aiModel |-> FALSE]
  /\ ConnIdle
  /\ aiEndpoint \in Endpoints
  /\ spent = 0
  /\ PairIdle
  /\ CatalogIdle
  /\ PromptIdle
  /\ SettingsIdle
  /\ CompIdle
  /\ PromptStoreIdle
  /\ TtsIdle
  /\ BatIdle

NextCall ==
  \/ Fetch
  \/ Read
  \/ ReadDone
  \/ ReadError
  \/ Stalls
  \/ SaveStart(1) /\ UNCHANGED spent
  \/ ProbeResolve(1) /\ UNCHANGED spent
  \/ ProbeHangs(1) /\ UNCHANGED spent
  \/ DelayElapsed(1) /\ UNCHANGED spent
  \/ HideLoading /\ UNCHANGED spent

SpecCall == InitCall /\ [][NextCall]_vars

\* --------------------------------------- the test cycle and its clock
\* The time a probe takes: one that fails at once takes none, one that the
\* timer aborts has lasted probeTimeout.
ProbeCost(result) == IF result = "timeout" THEN probeTimeout ELSE 0

InitElapsed ==
  /\ body = <<>>
  /\ throwsOn = {}
  /\ StreamIdle
  /\ version = "retry"
  /\ config = [aiMode |-> "local", aiApiKey |-> FALSE, aiModel |-> FALSE]
  /\ ConnIdle
  /\ aiEndpoint = ""
  /\ spent = 0
  /\ PairIdle
  /\ CatalogIdle
  /\ PromptIdle
  /\ SettingsIdle
  /\ CompIdle
  /\ PromptStoreIdle
  /\ TtsIdle
  /\ BatIdle

\* The cycle begins: the clock starts.
TimedStart == SaveStart(1) /\ spent' = 0

TimedProbeEnds ==
  \E result \in ProbeResults : ProbeEnds(1, result) /\ spent' = spent + ProbeCost(result)

\* await new Promise(resolve => setTimeout(resolve, retryDelay))
TimedDelay == DelayElapsed(1) /\ spent' = spent + retryDelay

NextElapsed ==
  \/ TimedStart
  \/ TimedProbeEnds
  \/ TimedDelay
  \/ ProbeHangs(1) /\ UNCHANGED spent
  \/ HideLoading /\ UNCHANGED spent

SpecElapsed == InitElapsed /\ [][NextElapsed]_vars

\* ---------------------------------------- two concurrent generation calls
InitPair ==
  /\ body = <<>>
  /\ throwsOn = {}
  /\ StreamIdle
  /\ version = "retry"
  /\ config = [aiMode |-> "local", aiApiKey |-> FALSE, aiModel |-> FALSE]
  /\ ConnIdle
  /\ aiEndpoint = ""
  /\ spent = 0
  /\ gen \in [Generations -> {NotCalled(b) : b \in SampleBodies}]
  /\ buffers = [c \in Generations |-> <<>>]
  /\ CatalogIdle
  /\ PromptIdle
  /\ SettingsIdle
  /\ CompIdle
  /\ PromptStoreIdle
  /\ TtsIdle
  /\ BatIdle

\* What the concurrent calls never write.
restOfPair == <<streamVars, connVars, aiEndpoint, spent, catalogVars, promptVars,
        settingsVars,
        compVars,
        promptStoreVars,
        ttsVars,
        batVars>>

\* generation.js:66-85 for call c: the POST, the status test, let buffer = ''.
GenFetch(c) ==
  /\ gen[c].pc = "init"
  /\ \E outcome \in {"ok", "status", "network"} :
       IF outcome = "ok"
       THEN /\ gen' = [gen EXCEPT ![c].pc = "reading"]
            /\ buffers' = [buffers EXCEPT ![LetBuffer(c)] = <<>>]
       ELSE /\ gen' = [gen EXCEPT ![c].pc = "failed"]
            /\ buffers' = buffers
  /\ UNCHANGED restOfPair

\* generation.js:88-111 for call c: one read and the handling of its chunk.
GenRead(c) ==
  /\ gen[c].pc = "reading"
  /\ gen[c].pos < Len(gen[c].body)
  /\ \E n \in 1..(Len(gen[c].body) - gen[c].pos) :
       LET g     == gen[c]
           value == SubSeq(g.body, g.pos + 1, g.pos + n)
           dec   == Decode(g.held, value)
           segs  == Split(buffers[LetBuffer(c)] \o dec.text)
           st    == ProcessLines(CompleteLines(segs),
                                 LoopStart(g.calls, g.stopSeen, g.stopAt), throwsOn)
       IN  /\ gen' = [gen EXCEPT ![c] =
                       [g EXCEPT !.pos = g.pos + n,
                                 !.held = dec.pending,
                                 !.calls = st.calls,
                                 !.stopSeen = st.stopSeen,
                                 !.stopAt = st.stopAt,
                                 !.pc = IF st.returned THEN "done" ELSE "reading"]]
           /\ buffers' = [buffers EXCEPT ![LetBuffer(c)] = PoppedTail(segs)]
  /\ UNCHANGED restOfPair

\* generation.js:88-89 for call c: done, the loop breaks.
GenReadDone(c) ==
  /\ gen[c].pc = "reading"
  /\ gen[c].pos = Len(gen[c].body)
  /\ gen' = [gen EXCEPT ![c].pc = "done"]
  /\ UNCHANGED buffers
  /\ UNCHANGED restOfPair

NextPair ==
  \/ \E c \in Generations : GenFetch(c)
  \/ \E c \in Generations : GenRead(c)
  \/ \E c \in Generations : GenReadDone(c)

SpecPair == InitPair /\ [][NextPair]_vars

\* ------------------------------------------------- fetchProviderModels
InitCatalog ==
  /\ body = <<>>
  /\ throwsOn = {}
  /\ StreamIdle
  /\ version \in {"retry", "single"}
  /\ config \in {cfg \in Configs : cfg.aiMode = "api"}
  /\ ConnIdle
  /\ aiEndpoint = ""
  /\ spent = 0
  /\ PairIdle
  /\ aiProvider \in Providers
  /\ fpc = [f \in FetchCalls |-> "idle"]
  /\ fetchingModels = FALSE
  /\ modelsFetched = FALSE
  /\ providerModels = Hardcoded
  /\ response \in Responses
  /\ PromptIdle
  /\ SettingsIdle
  /\ CompIdle
  /\ PromptStoreIdle
  /\ TtsIdle
  /\ BatIdle

\* What fetchProviderModels never writes.
restOfCatalog == <<streamVars, connVars, aiEndpoint, spent, pairVars, promptVars,
        settingsVars,
        compVars,
        promptStoreVars,
        ttsVars,
        batVars>>

\* A fetchProviderModels without the test on app.fetchingModels.
FetchModelsStartUnguarded(f) ==
  /\ fpc[f] = "idle"
  /\ IF config.aiMode # "api" \/ ~config.aiApiKey
     THEN /\ fpc' = [fpc EXCEPT ![f] = "returned"]
          /\ UNCHANGED <<fetchingModels, modelsFetched>>
     ELSE IF aiProvider \in {"openrouter", "openai"}
     THEN /\ fpc' = [fpc EXCEPT ![f] = "fetching"]
          /\ fetchingModels' = TRUE
          /\ UNCHANGED modelsFetched
     ELSE /\ fpc' = [fpc EXCEPT ![f] = Catch(FALSE)]
          /\ modelsFetched' = TRUE
          /\ fetchingModels' = FALSE
  /\ UNCHANGED <<aiProvider, providerModels, response>>
  /\ UNCHANGED restOfCatalog

\* fetchProviderModels(app) up to its first await: the two guards, then
\* fetchingModels = true; the providers without a models endpoint set
\* modelsFetched and the call runs to its end.
FetchModelsStart(f) ==
  /\ fpc[f] = "idle"
  /\ IF config.aiMode # "api" \/ ~config.aiApiKey \/ fetchingModels
     THEN /\ fpc' = [fpc EXCEPT ![f] = "returned"]
          /\ UNCHANGED <<fetchingModels, modelsFetched>>
     ELSE IF aiProvider \in {"openrouter", "openai"}
     THEN /\ fpc' = [fpc EXCEPT ![f] = "fetching"]
          /\ fetchingModels' = TRUE
          /\ UNCHANGED modelsFetched
     ELSE /\ fpc' = [fpc EXCEPT ![f] = Catch(FALSE)]
          /\ modelsFetched' = TRUE
          /\ fetchingModels' = FALSE
  /\ UNCHANGED <<aiProvider, providerModels, response>>
  /\ UNCHANGED restOfCatalog

\* The awaited fetch settles with the provider's answer: the rest of the
\* try block, the catch and the finally.
FetchModelsResolve(f) ==
  /\ fpc[f] = "fetching"
  /\ LET r == TryFetch(version, aiProvider, response, providerModels)
     IN  /\ providerModels' = r.list
         /\ modelsFetched' = (modelsFetched \/ r.fetched)
         /\ fpc' = [fpc EXCEPT ![f] = Catch(r.threw)]
  /\ fetchingModels' = FALSE
  /\ UNCHANGED <<aiProvider, response>>
  /\ UNCHANGED restOfCatalog

NextCatalog ==
  \/ \E f \in FetchCalls : FetchModelsStart(f)
  \/ \E f \in FetchCalls : FetchModelsResolve(f)
  \/ \E c \in Calls : SaveStart(c) /\ UNCHANGED spent
  \/ HideLoading /\ UNCHANGED spent

SpecCatalog == InitCatalog /\ [][NextCatalog]_vars

\* ------------------------------------------- settings saved and loaded
\* The app with its settings form filled in and a record left in storage
\* by an earlier save; loadAISettings has not run yet.
InitSettings ==
  /\ body = Utf8Encode(<<"\n">>)
  /\ throwsOn = {}
  /\ StreamIdle
  /\ version \in {"retry", "single"}
  /\ config \in Configs
  /\ aiStatus = "idle"
  /\ showModelLoading = FALSE
  /\ hideTimers = 0
  /\ cpc = [c \in Calls |-> "idle"]
  /\ attempt = [c \in Calls |-> 0]
  /\ connected = [c \in Calls |-> FALSE]
  /\ okSeen = [c \in Calls |-> FALSE]
  /\ startStatus = [c \in Calls |-> "none"]
  /\ errorMessage = [c \in Calls |-> NoMessage]
  /\ stored \in StoredSamples
  /\ aiEndpoint = ""
  /\ spent = 0
  /\ PairIdle
  /\ aiProvider = "anthropic"
  /\ fpc = [f \in FetchCalls |-> "idle"]
  /\ fetchingModels = FALSE
  /\ modelsFetched = FALSE
  /\ providerModels = Hardcoded
  /\ response = [kind |-> "ok", data |-> <<>>]
  /\ PromptIdle
  /\ temperature \in {"0.8", "0"}
  /\ maxTokens = "300"
  /\ lpc = "idle"
  /\ settings = <<>>
  /\ CompIdle
  /\ PromptStoreIdle
  /\ TtsIdle
  /\ BatIdle

\* What neither the settings operations nor the calls they make write.
restOfSettings == <<pairVars, promptVars, compVars,
        promptStoreVars,
        ttsVars,
        batVars>>

\* saveGenerationParams(app): the settings object is written, nothing tested.
SaveGenerationParams ==
  /\ stored' = <<Settings(config, aiProvider, aiEndpoint, temperature, maxTokens)>>
  /\ UNCHANGED <<version, config, aiStatus, showModelLoading, hideTimers, cpc, attempt,
                 connected, okSeen, startStatus, errorMessage>>
  /\ UNCHANGED <<streamVars, aiEndpoint, spent, catalogVars, settingsVars, restOfSettings>>

\* loadAISettings(app) up to its await: nothing stored, nothing done; else
\* the fields are assigned and, in api mode with a key, fetchProviderModels
\* is called (call 1) and awaited. The retrying version assigns the model
\* after the await, the other one before it.
LoadStart ==
  /\ lpc = "idle"
  /\ IF stored = <<>>
     THEN /\ lpc' = "loaded"
          /\ UNCHANGED <<config, aiProvider, aiEndpoint, temperature, maxTokens, settings,
                         fpc, fetchingModels, modelsFetched>>
     ELSE LET s == stored[1]
              loaded == [aiMode |-> s.mode, aiApiKey |-> s.apiKey,
                         aiModel |-> IF version = "retry" THEN config.aiModel ELSE s.model]
          IN  /\ settings' = stored
              /\ config' = loaded
              /\ aiProvider' = s.provider
              /\ aiEndpoint' = s.endpoint
              /\ temperature' = TemperatureOrDefault(s.temperature)
              /\ maxTokens' = MaxTokensOrDefault(s.maxTokens)
              /\ IF loaded.aiMode # "api" \/ ~loaded.aiApiKey
                 THEN /\ lpc' = IF version = "retry" THEN "fetching" ELSE "loaded"
                      /\ UNCHANGED <<fpc, fetchingModels, modelsFetched>>
                 ELSE /\ lpc' = "fetching"
                      /\ IF fetchingModels
                         THEN /\ fpc' = [fpc EXCEPT ![1] = "returned"]
                              /\ UNCHANGED <<fetchingModels, modelsFetched>>
                         ELSE IF s.provider \in {"openrouter", "openai"}
                         THEN /\ fpc' = [fpc EXCEPT ![1] = "fetching"]
                              /\ fetchingModels' = TRUE
                              /\ UNCHANGED modelsFetched
                         ELSE /\ fpc' = [fpc EXCEPT ![1] = Catch(FALSE)]
                              /\ modelsFetched' = TRUE
                              /\ fetchingModels' = FALSE
  /\ UNCHANGED <<version, aiStatus, showModelLoading, hideTimers, cpc, attempt,
                 connected, okSeen, startStatus, errorMessage, stored>>
  /\ UNCHANGED <<providerModels, response>>
  /\ UNCHANGED <<streamVars, spent, restOfSettings>>

\* loadAISettings after its await: the retrying version sets the model it
\* read from the record.
LoadResume ==
  /\ lpc = "fetching"
  /\ fpc[1] # "fetching"
  /\ lpc' = "loaded"
  /\ config' = IF version = "retry" /\ fpc[1] # "rejected"
               THEN [config EXCEPT !.aiModel = settings[1].model]
               ELSE config
  /\ UNCHANGED <<version, aiStatus, showModelLoading, hideTimers, cpc, attempt,
                 connected, okSeen, startStatus, errorMessage, stored>>
  /\ UNCHANGED <<temperature, maxTokens, settings>>
  /\ UNCHANGED <<streamVars, aiEndpoint, spent, catalogVars, restOfSettings>>

NextSettings ==
  \/ SaveGenerationParams
  \/ LoadStart
  \/ LoadResume
  \/ SaveStart(1) /\ UNCHANGED spent
  \/ ProbeResolve(1) /\ UNCHANGED spent
  \/ DelayElapsed(1) /\ UNCHANGED spent
  \/ HideLoading /\ UNCHANGED spent
  \/ FetchModelsStart(2)
  \/ \E f \in FetchCalls : FetchModelsResolve(f)
  \/ Fetch
  \/ Read
  \/ ReadDone

SpecSettings == InitSettings /\ [][NextSettings]_vars

\* ------------------------------------------ the compendium panel at work
\* Each handler of CompendiumManager is one step: it runs to its end before
\* the user's next click is served, and the calls of window.Compendium it
\* awaits succeed or throw as the environment decides. While the
\* unsaved-changes modal is shown, its three buttons are all the user can
\* reach; the entry's fields and the entry list need the panel shown.
InitCompendium ==
  /\ body = <<>>
  /\ throwsOn = {}
  /\ StreamIdle
  /\ version = "retry"
  /\ config = [aiMode |-> "local", aiApiKey |-> FALSE, aiModel |-> FALSE]
  /\ ConnIdle
  /\ aiEndpoint = ""
  /\ spent = 0
  /\ PairIdle
  /\ CatalogIdle
  /\ PromptIdle
  /\ SettingsIdle
  /\ CompIdle
  /\ PromptStoreIdle
  /\ TtsIdle
  /\ BatIdle

\* What CompendiumManager never writes.
restOfComp == <<streamVars, connVars, aiEndpoint, spent, pairVars, catalogVars,
                promptVars, settingsVars,
        promptStoreVars,
        ttsVars,
        batVars>>

\* The app and the store as a handler finds them.
App ==
  [store |-> compendium, cur |-> currentCompEntry, orig |-> compendiumOriginalEntry,
   dirty |-> compendiumDirty, pending |-> pendingCompendiumAction,
   modal |-> showCompendiumUnsavedModal, panel |-> showCodexPanel,
   open |-> openCompCategories, op |-> Op(Null, Null, "none")]

\* The app and the store as a handler leaves them.
Becomes(a) ==
  /\ compendium' = a.store
  /\ currentCompEntry' = a.cur
  /\ compendiumOriginalEntry' = a.orig
  /\ compendiumDirty' = a.dirty
  /\ pendingCompendiumAction' = a.pending
  /\ showCompendiumUnsavedModal' = a.modal
  /\ showCodexPanel' = a.panel
  /\ openCompCategories' = a.open
  /\ lastOp' = a.op
  /\ UNCHANGED restOfComp

\* The panel's controls can be reached.
PanelInUse == showCodexPanel /\ ~showCompendiumUnsavedModal

\* An action run without the guard being asked.
Unguarded(a, action) == [a EXCEPT !.op = Op(Null, <<action>>, "direct")]

\* openCompendium(app): a second click on the button closes the panel.
OpenCompendium ==
  /\ ~showCompendiumUnsavedModal
  /\ IF showCodexPanel
     THEN Becomes(guardCompendiumAction(App, Action("close", 0, ""), doCloseCompendium(App)))
     ELSE Becomes([App EXCEPT !.panel = TRUE])

\* closeCompendium(app)
CloseCompendium ==
  /\ PanelInUse
  /\ Becomes(guardCompendiumAction(App, Action("close", 0, ""), doCloseCompendium(App)))

\* loadCompendiumCategory(app, category)
LoadCompendiumCategory(category) ==
  /\ PanelInUse
  /\ IF category \in openCompCategories
     THEN IF currentCompEntry # Null /\ currentCompEntry[1].category = category
          THEN Becomes(guardCompendiumAction(App, Action("category", 0, category),
                                             doLoadCompendiumCategory(App, category)))
          ELSE Becomes(Unguarded(doLoadCompendiumCategory(App, category),
                                 Action("category", 0, category)))
     ELSE Becomes([App EXCEPT !.open = @ \cup {category}])

\* createCompendiumEntry(app, category)
CreateCompendiumEntry(category) ==
  /\ PanelInUse
  /\ \E ok \in BOOLEAN, ok2 \in BOOLEAN :
       Becomes(guardCompendiumAction(App, Action("create", 0, category),
                                     doCreateCompendiumEntry(App, category, ok, ok2)))

\* selectCompendiumEntry(app, id) for an entry of the list; a click on the
\* selected entry returns at once.
SelectCompendiumEntry(id) ==
  /\ PanelInUse
  /\ compendium[id] # Null
  /\ ~(currentCompEntry # Null /\ currentCompEntry[1].id = id)
  /\ \E ok \in BOOLEAN :
       Becomes(guardCompendiumAction(App, Action("select", id, ""),
                                     doSelectCompendiumEntry(App, id, ok)))

\* moveCompendiumEntryToCategory(app, id, newCategory)
MoveCompendiumEntryToCategory(id, newCategory) ==
  /\ PanelInUse
  /\ compendium[id] # Null
  /\ \E ok \in BOOLEAN :
       IF currentCompEntry # Null /\ currentCompEntry[1].id = id /\ compendiumDirty
       THEN Becomes(guardCompendiumAction(App, Action("moveToCategory", id, newCategory),
                      doMoveCompendiumEntryToCategory(App, id, newCategory, ok)))
       ELSE Becomes(Unguarded(doMoveCompendiumEntryToCategory(App, id, newCategory, ok),
                              Action("moveToCategory", id, newCategory)))

\* The title field edited: the input event calls updateCompendiumDirtyFlag.
EditTitle(title) ==
  /\ PanelInUse
  /\ currentCompEntry # Null
  /\ currentCompEntry[1].title # title
  /\ Becomes(updateCompendiumDirtyFlag(
               [App EXCEPT !.cur = <<[currentCompEntry[1] EXCEPT !.title = title]>>]))

\* addCompTag(app) with app.newCompTag = tag
AddCompTag(tag) ==
  /\ PanelInUse
  /\ currentCompEntry # Null
  /\ WithTag(currentCompEntry[1].tags, tag) # currentCompEntry[1].tags
  /\ Becomes(updateCompendiumDirtyFlag(
               [App EXCEPT !.cur = <<[currentCompEntry[1] EXCEPT !.tags = WithTag(@, tag)]>>]))

\* removeCompTag(app, index)
RemoveCompTag(index) ==
  /\ PanelInUse
  /\ currentCompEntry # Null
  /\ Becomes(updateCompendiumDirtyFlag(
               [App EXCEPT !.cur = <<[currentCompEntry[1] EXCEPT
                                        !.tags = WithoutTagAt(@, index)]>>]))

\* The Save button: saveCompendiumEntry(app)
SaveCompendiumEntry ==
  /\ PanelInUse
  /\ currentCompEntry # Null
  /\ \E ok \in BOOLEAN : Becomes(saveCompendiumEntry(App, ok))

\* deleteCompendiumEntry(app, id)
DeleteCompendiumEntry(id) ==
  /\ PanelInUse
  /\ compendium[id] # Null
  /\ \E ok \in BOOLEAN : Becomes(deleteCompendiumEntry(App, id, ok))

\* The modal's "Save" button
SaveAndProceedCompendium ==
  /\ showCompendiumUnsavedModal
  /\ \E saveOk \in BOOLEAN, ok \in BOOLEAN, ok2 \in BOOLEAN :
       Becomes(saveAndProceedCompendium(App, saveOk, ok, ok2))

\* The modal's "Discard" button
DiscardAndProceedCompendium ==
  /\ showCompendiumUnsavedModal
  /\ \E ok \in BOOLEAN, ok2 \in BOOLEAN :
       Becomes(discardAndProceedCompendium(App, ok, ok2))

\* The modal's "Cancel" button
CancelCompendiumAction ==
  /\ showCompendiumUnsavedModal
  /\ Becomes(cancelCompendiumAction(App))

NextCompendium ==
  \/ OpenCompendium
  \/ CloseCompendium
  \/ \E category \in Categories : LoadCompendiumCategory(category)
  \/ \E category \in Categories : CreateCompendiumEntry(category)
  \/ \E id \in EntryIds : SelectCompendiumEntry(id)
  \/ \E id \in EntryIds, category \in Categories : MoveCompendiumEntryToCategory(id, category)
  \/ \E title \in Titles : EditTitle(title)
  \/ AddCompTag("x")
  \/ RemoveCompTag(0)
  \/ SaveCompendiumEntry
  \/ \E id \in EntryIds : DeleteCompendiumEntry(id)
  \/ SaveAndProceedCompendium
  \/ DiscardAndProceedCompendium
  \/ CancelCompendiumAction

SpecCompendium == InitCompendium /\ [][NextCompendium]_vars

\* ------------------------------------------------ the prompts being moved
\* Each handler is one step; a later click is served by a later reading of
\* the clock.
InitPrompts ==
  /\ body = <<>>
  /\ throwsOn = {}
  /\ StreamIdle
  /\ version = "retry"
  /\ config = [aiMode |-> "local", aiApiKey |-> FALSE, aiModel |-> FALSE]
  /\ ConnIdle
  /\ aiEndpoint = ""
  /\ spent = 0
  /\ PairIdle
  /\ CatalogIdle
  /\ PromptIdle
  /\ SettingsIdle
  /\ CompIdle
  /\ PromptStoreIdle
  /\ TtsIdle
  /\ BatIdle

\* What the Prompts module never writes.
restOfPrompts == <<streamVars, connVars, aiEndpoint, spent, pairVars, catalogVars,
                   promptVars, settingsVars, compVars,
        ttsVars,
        batVars>>

\* The ids db.prompts has not handed out.
FreeIds == {i \in PromptIds : \A j \in PromptIds : j >= i => prompts[j] = Null}

\* createPrompt(app, category)
CreatePrompt(category) ==
  /\ FreeIds # {}
  /\ LET id == CHOOSE i \in FreeIds : \A j \in FreeIds : i <= j
     IN  prompts' = [prompts EXCEPT ![id] = <<Prompt(category, now)>>]
  /\ now' = now + 1
  /\ lastMove' = NoMove
  /\ UNCHANGED restOfPrompts

\* The prompts of `file` added from id `first` on, each with the one `now`
\* read before the loop.
Imported(store, file, first, stamp) ==
  [i \in PromptIds |->
     IF i >= first /\ i < first + Len(file)
     THEN <<Prompt(IF file[i - first + 1] = "" THEN "prose" ELSE file[i - first + 1], stamp)>>
     ELSE store[i]]

\* importPrompts(app, fileInput), the file valid and the import confirmed
ImportPrompts(file) ==
  /\ Cardinality(FreeIds) >= Len(file)
  /\ LET first == CHOOSE i \in FreeIds : \A j \in FreeIds : i <= j
     IN  prompts' = Imported(prompts, file, first, now)
  /\ now' = now + 1
  /\ lastMove' = NoMove
  /\ UNCHANGED restOfPrompts

\* movePromptUp(app, id) for a listed prompt
MovePromptUp(id) ==
  /\ prompts[id] # Null
  /\ prompts' = movePromptUp(prompts, id)
  /\ lastMove' = Move(id, "up", CategoryList(prompts, prompts[id][1].category))
  /\ UNCHANGED now
  /\ UNCHANGED restOfPrompts

\* movePromptDown(app, id) for a listed prompt
MovePromptDown(id) ==
  /\ prompts[id] # Null
  /\ prompts' = movePromptDown(prompts, id)
  /\ lastMove' = Move(id, "down", CategoryList(prompts, prompts[id][1].category))
  /\ UNCHANGED now
  /\ UNCHANGED restOfPrompts

NextPrompts ==
  \/ \E category \in PromptCategories : CreatePrompt(category)
  \/ \E file \in ImportFiles : ImportPrompts(file)
  \/ \E id \in PromptIds : MovePromptUp(id)
  \/ \E id \in PromptIds : MovePromptDown(id)

SpecPrompts == InitPrompts /\ [][NextPrompts]_vars

\* ------------------------------------------------------- reading aloud
\* speechSynthesis holds at most one utterance, because speak cancels
\* before it queues. cancel() takes the utterance out at once and the
\* browser tells the utterance later, with an end or an error event, or
\* not at all; both events run the same assignments of TTS.
InitTts ==
  /\ body = <<>>
  /\ throwsOn = {}
  /\ StreamIdle
  /\ version = "retry"
  /\ config = [aiMode |-> "local", aiApiKey |-> FALSE, aiModel |-> FALSE]
  /\ ConnIdle
  /\ aiEndpoint = ""
  /\ spent = 0
  /\ PairIdle
  /\ CatalogIdle
  /\ PromptIdle
  /\ SettingsIdle
  /\ CompIdle
  /\ PromptStoreIdle
  /\ TtsIdle
  /\ BatIdle

\* What TTS never writes.
restOfTts == <<streamVars, connVars, aiEndpoint, spent, pairVars, catalogVars,
               promptVars, settingsVars, compVars, promptStoreVars,
        batVars>>

\* TTS.stop(): the record <<currentUtterance, isPaused, synth, cancelled>>
\* as it leaves it; `told` says whether the browser will tell the
\* cancelled utterance.
stop(told) ==
  IF synth # 0
  THEN [current |-> 0, paused |-> FALSE, synth |-> 0,
        cancelled |-> IF told THEN cancelled \cup {synth} ELSE cancelled]
  ELSE [current |-> currentUtterance, paused |-> isPaused, synth |-> 0,
        cancelled |-> cancelled]

\* TTS.speak(text, options) with a text to read
Speak ==
  /\ made < MaxUtterances
  /\ \E told \in BOOLEAN :
       /\ cancelled' = stop(told).cancelled
       /\ isPaused' = stop(told).paused
  /\ made' = made + 1
  /\ currentUtterance' = made + 1
  /\ synth' = made + 1
  /\ started' = FALSE
  /\ UNCHANGED restOfTts

\* TTS.speak with no text, or with blanks only: stop() and the return
SpeakNothing ==
  /\ \E told \in BOOLEAN :
       /\ cancelled' = stop(told).cancelled
       /\ isPaused' = stop(told).paused
       /\ currentUtterance' = stop(told).current
  /\ synth' = 0
  /\ started' = FALSE
  /\ UNCHANGED made
  /\ UNCHANGED restOfTts

\* TTS.stop() called by the page
Stop ==
  /\ \E told \in BOOLEAN :
       /\ cancelled' = stop(told).cancelled
       /\ isPaused' = stop(told).paused
       /\ currentUtterance' = stop(told).current
  /\ synth' = 0
  /\ started' = FALSE
  /\ UNCHANGED made
  /\ UNCHANGED restOfTts

\* TTS.pause()
Pause ==
  /\ synth # 0 /\ ~isPaused
  /\ isPaused' = TRUE
  /\ UNCHANGED <<currentUtterance, synth, started, cancelled, made>>
  /\ UNCHANGED restOfTts

\* TTS.resume()
Resume ==
  /\ isPaused
  /\ isPaused' = FALSE
  /\ UNCHANGED <<currentUtterance, synth, started, cancelled, made>>
  /\ UNCHANGED restOfTts

\* utterance.onstart of the utterance the synthesizer begins to speak
OnStart ==
  /\ synth # 0 /\ ~started
  /\ started' = TRUE
  /\ isPaused' = FALSE
  /\ UNCHANGED <<currentUtterance, synth, cancelled, made>>
  /\ UNCHANGED restOfTts

\* utterance.onend / onerror of the utterance that was spoken to its end
\* or broke off
OnEnd ==
  /\ synth # 0 /\ started
  /\ synth' = 0
  /\ started' = FALSE
  /\ currentUtterance' = 0
  /\ isPaused' = FALSE
  /\ UNCHANGED <<cancelled, made>>
  /\ UNCHANGED restOfTts

\* utterance.onend / onerror of a cancelled utterance `u`
OnEndCancelled(u) ==
  /\ u \in cancelled
  /\ cancelled' = cancelled \ {u}
  /\ currentUtterance' = 0
  /\ isPaused' = FALSE
  /\ UNCHANGED <<synth, started, made>>
  /\ UNCHANGED restOfTts

NextTts ==
  \/ Speak
  \/ SpeakNothing
  \/ Stop
  \/ Pause
  \/ Resume
  \/ OnStart
  \/ OnEnd
  \/ \E u \in 1..MaxUtterances : OnEndCancelled(u)

SpecTts == InitTts /\ [][NextTts]_vars

\* ------------------------------------------ start.bat, section 1
\* A position is the number of the line that runs next. The files are as
\* an updater or an interrupted earlier start left them; del and rmdir do
\* what they are asked.
InitBat ==
  /\ body = <<>>
  /\ throwsOn = {}
  /\ StreamIdle
  /\ version = "retry"
  /\ config = [aiMode |-> "local", aiApiKey |-> FALSE, aiModel |-> FALSE]
  /\ ConnIdle
  /\ aiEndpoint = ""
  /\ spent = 0
  /\ PairIdle
  /\ CatalogIdle
  /\ PromptIdle
  /\ SettingsIdle
  /\ CompIdle
  /\ PromptStoreIdle
  /\ TtsIdle
  /\ bpc = "15"
  /\ readyJson \in BOOLEAN
  /\ latestZip \in BOOLEAN
  /\ extractDir \in {"absent", "empty", "root"}
  /\ errorlevel = "none"
  /\ applied = 0
  /\ starts = 1
  /\ staged = IF readyJson THEN 1 ELSE 0

\* What start.bat never writes.
restOfBat == <<streamVars, connVars, aiEndpoint, spent, pairVars, catalogVars,
               promptVars, settingsVars, compVars, promptStoreVars, ttsVars>>

\* line 15: if not exist ".update\ready.json" goto update_done
CheckReady ==
  /\ bpc = "15"
  /\ bpc' = IF readyJson THEN "21" ELSE "done"
  /\ UNCHANGED <<readyJson, latestZip, extractDir, errorlevel, applied, starts, staged>>
  /\ UNCHANGED restOfBat

\* line 21: if not exist ".update\latest.zip" ( ... )
CheckZip ==
  /\ bpc = "21"
  /\ bpc' = IF latestZip THEN "28" ELSE "23"
  /\ UNCHANGED <<readyJson, latestZip, extractDir, errorlevel, applied, starts, staged>>
  /\ UNCHANGED restOfBat

\* A del of ready.json that finds the file in use and leaves it.
DelReadyFails(at, next) ==
  /\ bpc = at
  /\ bpc' = next
  /\ UNCHANGED <<readyJson, latestZip, extractDir, errorlevel, applied, starts, staged>>
  /\ UNCHANGED restOfBat

\* del /q ".update\ready.json" 2>nul at line `at`, line `next` after it
DelReady(at, next) ==
  /\ bpc = at
  /\ readyJson' = FALSE
  /\ bpc' = next
  /\ UNCHANGED <<latestZip, extractDir, errorlevel, applied, starts, staged>>
  /\ UNCHANGED restOfBat

\* del /q ".update\latest.zip" 2>nul at line `at`
DelZip(at, next) ==
  /\ bpc = at
  /\ latestZip' = FALSE
  /\ bpc' = next
  /\ UNCHANGED <<readyJson, extractDir, errorlevel, applied, starts, staged>>
  /\ UNCHANGED restOfBat

\* rmdir /s /q ".update\extract" 2>nul at line `at`, then update_done
RmExtract(at, next) ==
  /\ bpc = at
  /\ extractDir' = "absent"
  /\ bpc' = next
  /\ UNCHANGED <<readyJson, latestZip, errorlevel, applied, starts, staged>>
  /\ UNCHANGED restOfBat

\* lines 28-29: the extract directory made anew
MakeExtractDir ==
  /\ bpc = "28"
  /\ extractDir' = "empty"
  /\ bpc' = "33"
  /\ UNCHANGED <<readyJson, latestZip, errorlevel, applied, starts, staged>>
  /\ UNCHANGED restOfBat

\* lines 33-34: Expand-Archive fails (what it wrote stays), or leaves the
\* zip's content, with a folder in it or without
Expand ==
  /\ bpc = "33"
  /\ \E failed \in BOOLEAN, content \in {"empty", "root"} :
       /\ extractDir' = content
       /\ bpc' = IF failed THEN "36" ELSE "45"
  /\ UNCHANGED <<readyJson, latestZip, errorlevel, applied, starts, staged>>
  /\ UNCHANGED restOfBat

\* lines 44-51: the first folder of the extract directory, or none
DetectRoot ==
  /\ bpc = "45"
  /\ bpc' = IF extractDir = "root" THEN "65" ELSE "53"
  /\ UNCHANGED <<readyJson, latestZip, extractDir, errorlevel, applied, starts, staged>>
  /\ UNCHANGED restOfBat

\* lines 65-72: robocopy, its code below 8 or not; either way line 76 is next
Copy ==
  /\ bpc = "65"
  /\ applied' = applied + 1
  /\ errorlevel' \in {"ok", "error"}
  /\ bpc' = "76"
  /\ UNCHANGED <<readyJson, latestZip, extractDir, starts, staged>>
  /\ UNCHANGED restOfBat

\* start.bat started again, the files as the start before left them
StartAgain ==
  /\ bpc \in {"done", "app"}
  /\ starts < MaxStarts
  /\ starts' = starts + 1
  /\ bpc' = "15"
  /\ errorlevel' = "none"
  /\ UNCHANGED <<readyJson, latestZip, extractDir, applied, staged>>
  /\ UNCHANGED restOfBat

\* line 86 on: the checks of sections 2 to 4 passed, the app is started
StartApp ==
  /\ bpc = "done"
  /\ bpc' = "app"
  /\ UNCHANGED <<readyJson, latestZip, extractDir, errorlevel, applied, starts, staged>>
  /\ UNCHANGED restOfBat

\* The running app stages the next update: the zip and ready.json.
Stage ==
  /\ bpc = "app"
  /\ staged < MaxStaged
  /\ staged' = staged + 1
  /\ latestZip' = TRUE
  /\ readyJson' = TRUE
  /\ UNCHANGED <<bpc, extractDir, errorlevel, applied, starts>>
  /\ UNCHANGED restOfBat

NextBat ==
  \/ CheckReady
  \/ CheckZip
  \/ DelReady("23", "done")
  \/ MakeExtractDir
  \/ Expand
  \/ DelReady("36", "37")
  \/ DelZip("37", "38")
  \/ RmExtract("38", "done")
  \/ DetectRoot
  \/ DelReady("53", "54")
  \/ DelZip("54", "55")
  \/ RmExtract("55", "done")
  \/ Copy
  \/ DelReady("76", "77")
  \/ DelZip("77", "78")
  \/ RmExtract("78", "done")
  \/ StartApp
  \/ StartAgain
  \/ Stage

SpecBat == InitBat /\ [][NextBat]_vars

\* ---------------------------------------------------- calls of buildPrompt
InitPrompt ==
  /\ body = <<>>
  /\ throwsOn = {}
  /\ StreamIdle
  /\ version = "retry"
  /\ config = [aiMode |-> "local", aiApiKey |-> FALSE, aiModel |-> FALSE]
  /\ ConnIdle
  /\ aiEndpoint = ""
  /\ spent = 0
  /\ PairIdle
  /\ CatalogIdle
  /\ PromptIdle
  /\ SettingsIdle
  /\ CompIdle
  /\ PromptStoreIdle
  /\ TtsIdle
  /\ BatIdle

\* What buildPrompt never writes.
restOfPrompt == <<streamVars, connVars, aiEndpoint, spent, pairVars, catalogVars,
        settingsVars,
        compVars,
        promptStoreVars,
        ttsVars,
        batVars>>

\* A buildPrompt whose compendiumText outlives the call: a call without
\* entries of its own uses those of the call before it.
BuildCallRemembers ==
  \E in \in PromptInputs, e \in {earlier, latest} :
    /\ latest' = [called |-> TRUE, input |-> in,
                  result |-> IF in.options.isNull \/ CompendiumText(in.options) # <<>>
                             THEN buildPrompt(in.beat, in.sceneContext, in.options)
                             ELSE buildPrompt(in.beat, in.sceneContext,
                                    [in.options EXCEPT !.compendiumEntries =
                                       latest.input.options.compendiumEntries])]
    /\ earlier' = e
    /\ UNCHANGED <<sceneContext, contextText>>
    /\ UNCHANGED restOfPrompt

\* One call of buildPrompt with any of the sample arguments; the observer
\* keeps the call before it or goes on remembering an older one.
BuildCall ==
  \E in \in PromptInputs, e \in {earlier, latest} :
    /\ latest' = [called |-> TRUE, input |-> in,
                  result |-> buildPrompt(in.beat, in.sceneContext, in.options)]
    /\ earlier' = e
    /\ UNCHANGED <<sceneContext, contextText>>
    /\ UNCHANGED restOfPrompt

NextPrompt == BuildCall

SpecPrompt == InitPrompt /\ [][NextPrompt]_vars

\* ------------------------------------- the scene context of buildPrompt
InitContext ==
  /\ body = <<>>
  /\ throwsOn = {}
  /\ StreamIdle
  /\ version = "retry"
  /\ config = [aiMode |-> "local", aiApiKey |-> FALSE, aiModel |-> FALSE]
  /\ ConnIdle
  /\ aiEndpoint = ""
  /\ spent = 0
  /\ PairIdle
  /\ CatalogIdle
  /\ earlier = NoCall
  /\ latest = NoCall
  /\ sceneContext \in LongContexts
  /\ contextText = <<>>
  /\ SettingsIdle
  /\ CompIdle
  /\ PromptStoreIdle
  /\ TtsIdle
  /\ BatIdle

\* buildPrompt called with the scene context and no options.
BuildWithContext ==
  /\ ~latest.called
  /\ contextText' = ContextBlock(sceneContext)
  /\ latest' = [called |-> TRUE,
                input |-> [beat |-> <<>>, sceneContext |-> sceneContext,
                           options |-> DefaultOptions],
                result |-> buildPrompt(<<>>, sceneContext, DefaultOptions)]
  /\ UNCHANGED <<earlier, sceneContext>>
  /\ UNCHANGED restOfPrompt

NextContext == BuildWithContext

SpecContext == InitContext /\ [][NextContext]_vars

\* ----------------------------------------------------- streamGeneration
\* The decoded text of the whole body and its newline-terminated lines,
\* whatever the chunks were.
BodyLines == CompleteLines(Split(Utf8Decode(body).text))

StartState == LoopStart(<<>>, FALSE, 0)

Payload(line) == JSONparse(Slice(line, 6))

IsStopFrame(line) ==
  StartsWith(line, DataPrefix) /\ Payload(line).kind = "object" /\ Payload(line).stop

IsContentFrame(line) ==
  StartsWith(line, DataPrefix) /\ Payload(line).kind = "object"
    /\ Payload(line).content # <<>>

IsMalformed(line) ==
  StartsWith(line, DataPrefix) /\ Payload(line).kind = "SyntaxError"

WellFormedLine(line) == ~IsMalformed(line)

RECURSIVE ContentsOf(_)
ContentsOf(lines) ==
  IF lines = <<>> THEN <<>>
  ELSE (IF IsContentFrame(Head(lines)) THEN <<Payload(Head(lines)).content>> ELSE <<>>)
         \o ContentsOf(Tail(lines))

StopIndexes == {i \in 1..Len(BodyLines) : IsStopFrame(BodyLines[i])}

\* The lines up to and including the first stop frame (all of them when
\* there is none).
LinesToFirstStop ==
  IF StopIndexes = {} THEN BodyLines
  ELSE SubSeq(BodyLines, 1, CHOOSE i \in StopIndexes : \A j \in StopIndexes : i <= j)

\* C1: the onToken calls depend only on the bytes of the body, not on the
\* chunks they arrive in: at every moment the calls made are a prefix of the
\* calls the whole body yields when handled in one piece, and a completed
\* call has made exactly those; a frame split over several reads yields
\* one call with its whole content.
C1_ChunkingIndependent ==
  LET whole == ProcessLines(BodyLines, StartState, throwsOn).calls
  IN  /\ IsPrefixOf(calls, whole)
      /\ pc = "done" => calls = whole

\* A body of one content frame whose bytes arrived in several reads, and
\* the one call made for it.
C1_Witness ==
  /\ pc = "done"
  /\ wasSplit
  /\ body = Utf8Encode(FrameHi \o <<"\n">>)
  /\ calls = <<TokHi>>

\* C2: once a frame carrying stop = true has been decoded, onToken is not
\* invoked for anything that follows the frame: the calls made are those
\* made when the frame had been handled.
C2_NoCallAfterStop == stopSeen => Len(calls) = stopAt

\* C3: a completed call has invoked onToken once for each content frame up
\* to the first stop frame (that frame's own content counted), in the order
\* of the frames, and for no other line.
C3_OneCallPerFrameInOrder == pc = "done" => calls = ContentsOf(LinesToFirstStop)

\* C4: a frame whose payload fails to parse yields no call and no error, and
\* changes nothing for the other frames: streamGeneration fails only by its
\* request or its transport, and a completed call has made the calls of the
\* body without its malformed frames.
C4_MalformedFrameSkipped ==
  /\ pc = "failed" => error \in {"status", "network", "transport"}
  /\ pc = "done" =>
       calls = ProcessLines(SelectSeq(BodyLines, WellFormedLine), StartState, throwsOn).calls

\* A malformed frame followed by a content frame, which was delivered.
C4_Witness ==
  /\ pc = "done"
  /\ body = Utf8Encode(FrameBad \o <<"\n">> \o FrameHi \o <<"\n">>)
  /\ calls = <<TokHi>>

\* C11: when the completion response has a status that is not ok,
\* streamGeneration rejects, has made no onToken call and has issued one
\* request: it does not try again.
C11_StatusFailsWithoutRetry ==
  error = "status" => (pc = "failed" /\ calls = <<>> /\ requests = 1)

\* A response with frames in its body and a status that is not ok.
C11_Witness ==
  /\ error = "status"
  /\ pc = "failed"
  /\ requests = 1
  /\ body = Utf8Encode(WithNewlines(<<FrameHi, FrameStop>>))

\* C13: streamGeneration absorbs malformed payloads only: once onToken has
\* thrown (it was called with a content it throws on), the call has failed.
C13_CallbackErrorPropagates ==
  (\E i \in 1..Len(calls) : calls[i] \in throwsOn) => pc = "failed"

\* ------------------------------------------------------- saveAISettings
InFlight(c) == cpc[c] \in {"probing", "hung", "waiting"}

\* The step with which call c ends without having connected.
EndsFailed(c) == cpc[c] # "done" /\ cpc'[c] = "done" /\ ~connected'[c]

LocalRetry == version = "retry" /\ config.aiMode = "local"

\* C5: in local mode, when every probe fails, the retrying cycle issues
\* exactly maxRetries probes, never more, and ends with status 'error'.
C5_BudgetExhausted ==
  [][\A c \in Calls : LocalRetry =>
       /\ attempt'[c] <= maxRetries
       /\ (EndsFailed(c) /\ ~okSeen'[c]) =>
            (attempt'[c] = maxRetries /\ aiStatus' = "error")]_vars

\* A cycle that ended in 'error' after maxRetries probes.
C5_Witness ==
  /\ LocalRetry
  /\ cpc[1] = "done"
  /\ ~okSeen[1]
  /\ attempt[1] = maxRetries
  /\ aiStatus = "error"

\* C6: in local mode, the probe that first succeeds ends the retrying cycle
\* with status 'ready' and with the probes issued so far; no probe and no
\* delay follows.
C6_SuccessEndsCycle ==
  [][\A c \in Calls : (LocalRetry /\ okSeen'[c]) =>
       /\ cpc'[c] = "done"
       /\ connected'[c]
       /\ attempt'[c] = attempt[c]
       /\ ~okSeen[c] => aiStatus' = "ready"]_vars

\* A cycle whose third probe succeeded.
C6_Witness ==
  /\ LocalRetry
  /\ cpc[1] = "done"
  /\ okSeen[1]
  /\ attempt[1] = 3
  /\ aiStatus = "ready"

\* C7: in the retrying cycle every probe after the first is issued after
\* the inter-attempt delay has elapsed, however the probe before it failed.
C7_DelayBeforeEveryRetry ==
  [][\A c \in Calls : (LocalRetry /\ attempt[c] >= 1 /\ attempt'[c] = attempt[c] + 1) =>
       cpc[c] = "waiting"]_vars

\* C8: at most one test cycle is in flight at a time.
C8_OneCycleInFlight == Cardinality({c \in Calls : InFlight(c)}) <= 1

\* C9: every local-mode test cycle terminates whatever the server does: a
\* cycle that is awaiting a probe or a delay can always go on.
C9_CycleCanAlwaysGoOn ==
  \A c \in Calls : (config.aiMode = "local" /\ InFlight(c)) => ENABLED CallStep(c)

\* C10, as claimed: a cycle that fails leaves the status 'ready' when the
\* status was 'ready' at its start, and 'error' otherwise.
C10_FailedRevalidationKeepsReady ==
  [][\A c \in Calls : EndsFailed(c) =>
       aiStatus' = (IF startStatus'[c] = "ready" THEN "ready" ELSE "error")]_vars

\* C10, amended: a cycle that fails ends with status 'error', whatever the
\* status was at its start.
C10_FailedCycleSetsError ==
  [][\A c \in Calls : EndsFailed(c) => aiStatus' = "error"]_vars

\* A cycle started with status 'ready' that failed.
C10_Witness ==
  /\ cpc[2] = "done"
  /\ ~connected[2]
  /\ startStatus[2] = "ready"
  /\ aiStatus = "error"

\* The messages that name the key, and those that name the model.
KeyMessages == {T("ai.apiKeyRequired"), <<"API key is required">>}

ModelMessages == {T("ai.modelRequired"), <<"Model name is required">>}

\* C12: in api mode with the key or the model missing, the call ends at
\* once with status 'error' and a message naming the missing item (the key
\* when the key is missing); no probe is issued, then or later.
C12_MissingItemFailsAtOnce ==
  [][\A c \in Calls :
       (config.aiMode = "api" /\ ~(config.aiApiKey /\ config.aiModel)) =>
         /\ attempt'[c] = 0
         /\ (cpc[c] = "idle" /\ cpc'[c] # "idle") =>
              /\ cpc'[c] = "done"
              /\ aiStatus' = "error"
              /\ errorMessage'[c] \in (IF ~config.aiApiKey THEN KeyMessages
                                                            ELSE ModelMessages)]_vars

\* A call in api mode with the key present and the model missing.
C12_Witness ==
  /\ config = [aiMode |-> "api", aiApiKey |-> TRUE, aiModel |-> FALSE]
  /\ cpc[1] = "done"
  /\ aiStatus = "error"
  /\ attempt[1] = 0
  /\ errorMessage[1] \in ModelMessages

\* --------------------------------------------- one generation call in the app
\* A request that goes where the settings say.
ConfiguredCompletionUrl(e) == <<EndpointOrDefault(e), "/completion">>

\* C14: the POST of streamGeneration goes to <endpoint>/completion, the
\* endpoint being the one of the settings that the test cycle validated.
C14_RequestGoesToConfiguredEndpoint ==
  (connected[1] /\ requests > 0) => requestUrl = ConfiguredCompletionUrl(aiEndpoint)

\* C15: a generation call whose backend stops sending without closing the
\* stream still ends: a step of the call (a timeout, a cancellation) is
\* possible.
C15_StalledCallStillEnds == pc = "stalled" => ENABLED StreamStep

\* ------------------------------------------------------- the clock
\* C17: when the retry budget is exhausted, the seconds the error message
\* states are the time spent probing and waiting since the cycle began,
\* rounded down or up.
C17_MessageStatesTimeSpent ==
  (cpc[1] = "done" /\ ~connected[1]) =>
    \E n \in {spent \div 1000, (spent + 999) \div 1000} :
      errorMessage[1] = T("ai.couldNotConnectPrefix") \o <<ToString(n)>>
                          \o T("ai.couldNotConnectSuffix")

\* ---------------------------------------- two concurrent generation calls
\* The onToken calls of the body of call c when it is handled alone and in
\* one piece.
OwnCalls(c) ==
  ProcessLines(CompleteLines(Split(Utf8Decode(gen[c].body).text)), StartState, throwsOn).calls

\* C16: under every interleaving of the reads of two concurrent calls, each
\* call's onToken receives the contents of its own response, in order: the
\* calls made are a prefix of those of its body handled alone, and all of
\* them when the call is done.
C16_CallsKeepTheirOwnFrames ==
  \A c \in Generations :
    /\ IsPrefixOf(gen[c].calls, OwnCalls(c))
    /\ gen[c].pc = "done" => gen[c].calls = OwnCalls(c)

\* Two calls with different responses, each holding a partial line in its
\* buffer after having delivered a content of its own.
C16_Witness ==
  /\ gen[1].body = Utf8Encode(WithNewlines(<<FrameHi, FrameStop>>))
  /\ gen[2].body = Utf8Encode(WithNewlines(<<FrameBad, FrameHi>>))
  /\ gen[1].calls = <<TokHi>>
  /\ gen[1].pc = "reading"
  /\ gen[2].pc = "reading"
  /\ buffers[1] # <<>>
  /\ buffers[2] # <<>>
  /\ buffers[1] # buffers[2]

\* ------------------------------------------------- fetchProviderModels
\* A call of fetchProviderModels has fetched the provider's answer, and no
\* other is under way.
FetchCompleted ==
  /\ config.aiApiKey
  /\ aiProvider \in {"openrouter", "openai"}
  /\ ~fetchingModels
  /\ \E f \in FetchCalls : fpc[f] = "returned"

\* C18: a step of fetchProviderModels never rejects and never changes the
\* connection status, whatever the provider answered; and a test cycle in
\* api mode with key and model present ends with status 'ready', whatever
\* became of the catalog.
C18_CatalogFailureIsHarmless ==
  [][/\ (fpc' # fpc) => (aiStatus' = aiStatus /\ \A f \in FetchCalls : fpc'[f] # "rejected")
     /\ \A c \in Calls :
          (config.aiApiKey /\ config.aiModel /\ cpc[c] = "idle" /\ cpc'[c] # "idle") =>
            (cpc'[c] = "done" /\ aiStatus' = "ready")]_vars

\* A catalog fetch has failed on a body that is not a models list, the
\* catalog is the one the app is built with, and a test cycle has reached
\* 'ready'.
C18_Witness ==
  /\ FetchCompleted
  /\ response.kind = "malformed"
  /\ providerModels = Hardcoded
  /\ ~modelsFetched
  /\ cpc[1] = "done"
  /\ aiStatus = "ready"

NotFree(m) == ~IsFree(m)

\* C19: the stored OpenRouter catalog is a stable partition of the
\* provider's list: the free entries, then the paid ones, each group in
\* the order the provider gave.
C19_StablePartition ==
  (FetchCompleted /\ aiProvider = "openrouter" /\ response.kind = "ok") =>
    LET kept == SelectSeq(response.data, HasId)
        part == SelectSeq(kept, IsFree) \o SelectSeq(kept, NotFree)
    IN  providerModels = [i \in 1..Len(part) |-> OpenRouterEntry(part[i])]

\* The ids the stored catalog lists.
StoredIds == {providerModels[i].id : i \in 1..Len(providerModels)}

\* The entries of the answer that qualify: those with an id, for OpenAI
\* those whose id holds 'gpt'.
Qualifying ==
  {i \in 1..Len(response.data) :
     /\ HasId(response.data[i])
     /\ aiProvider = "openai" => IsGpt(response.data[i])}

\* C20: after a catalog fetch, OpenRouter's or OpenAI's, the stored catalog
\* lists the qualifying entries of the answer, those without an id left out.
C20_EntriesWithoutIdDropped ==
  (FetchCompleted /\ response.kind = "ok") =>
    StoredIds = {response.data[i].id : i \in Qualifying}


Tokens(text) == SelectSeq(RawSplit(text, 1, Len(text)), NonEmpty)

\* C22: for a non-empty scene context the context block holds exactly the
\* last min(n, 500) of its n whitespace-delimited tokens, in order, joined
\* by single spaces, whatever whitespace leads or trails the context.
C22_LastTokensKept ==
  (latest.called /\ sceneContext # <<>>)
    => LET kept == SliceLast(Tokens(sceneContext), contextLimit)
       IN  contextText = <<"\n", "\n", "CURRENT SCENE SO FAR:", "\n">>
                           \o JoinSpace(kept, 1, Len(kept))


\* C23: buildPrompt never fails: with options null or with optional fields
\* absent or of an invalid type it returns a prompt.
C23_NeverThrows == latest.called => ~latest.result.threw

\* The prompt from its opening up to the end of the template block.
UpToTemplate(in) ==
  <<"<|im_start|>", "system", "\n">> \o SystemPrompt(in.options)
    \o <<"<|im_end|>", "\n", "<|im_start|>", "user", "\n">>
    \o ContextBlock(in.sceneContext) \o ProseTemplateText(in.options)

\* The instruction line, the beat and the close of the prompt.
FromInstruction(beat) ==
  <<"\n", "\n", "BEAT TO EXPAND:", "\n">> \o beat
    \o <<"\n", "\n", "Write the next 2-3 paragraphs:", "<|im_end|>", "\n",
          "<|im_start|>", "assistant", "\n">>

EntriesSupplied(options) ==
  options.compendiumEntries.t = "array" /\ options.compendiumEntries.items # <<>>

\* C24: outside preview mode and with compendium entries supplied, the
\* COMPENDIUM REFERENCES block lies in the user block after the context and
\* template blocks and immediately before the instruction line
\* BEAT TO EXPAND:, whatever the beat, the template and the POV options.
C24_BlockBeforeInstruction ==
  (/\ latest.called
   /\ ~latest.result.threw
   /\ ~Truthy(latest.input.options.preview)
   /\ EntriesSupplied(latest.input.options))
    => latest.result.text =
         UpToTemplate(latest.input) \o CompendiumText(latest.input.options) \o <<"\n">>
           \o FromInstruction(latest.input.beat)

\* The literals only buildPrompt writes: none of the sample arguments
\* holds one of them.
BlockLiterals ==
  {"COMPENDIUM REFERENCES:", "--- PROMPT TEMPLATE START ---", "--- PROMPT TEMPLATE END ---"}

Symbols(text) == {text[i] : i \in 1..Len(text)}

\* C25: with options.preview true the prompt holds neither the COMPENDIUM
\* REFERENCES block nor the PROMPT TEMPLATE START/END markers, whatever
\* entries and template were supplied.
C25_PreviewAddsNoBlock ==
  (latest.called /\ ~latest.result.threw /\ latest.input.options.preview = True)
    => Symbols(latest.result.text) \cap BlockLiterals = {}

\* A preview call with a template and with compendium entries.
C25_Witness ==
  /\ latest.called /\ ~latest.result.threw
  /\ latest.input.options.preview = True
  /\ HasTemplate(latest.input.options)
  /\ EntriesSupplied(latest.input.options)
  /\ IndexOfPart(latest.result.text, Trim(latest.input.options.prosePrompt.s)) # -1

\* C26: every returned prompt ends with the instruction line
\* BEAT TO EXPAND:, the beat unchanged on the next line (an empty beat
\* too) and the open assistant block, also after the compendium block was
\* spliced in; without compendium entries it holds no COMPENDIUM
\* REFERENCES header.
C26_BeatAndOpenAssistant ==
  (latest.called /\ ~latest.result.threw)
    => /\ EndsWith(latest.result.text, FromInstruction(latest.input.beat))
       /\ (~EntriesSupplied(latest.input.options)
             => "COMPENDIUM REFERENCES:" \notin Symbols(latest.result.text))

\* A prompt with the compendium block spliced in and an empty beat.
C26_Witness ==
  /\ latest.called /\ ~latest.result.threw
  /\ latest.input.beat = <<>>
  /\ "COMPENDIUM REFERENCES:" \in Symbols(latest.result.text)
  /\ latest.input.options.prosePrompt.t = "string"


\* -------------------------------------------------------- saveAISettings
\* C27: a test cycle that ends in 'error' leaves the stored settings
\* record as it was before the cycle started: while every cycle run so far
\* has failed and none is under way, storage holds what it held at first,
\* no record.
C27_FailedCycleLeavesRecord ==
  (/\ \E c \in Calls : cpc[c] = "done"
   /\ \A c \in Calls : cpc[c] \in {"idle", "done"} /\ ~connected[c])
    => stored = <<>>

\* C28: from the start of a test cycle until it ends the connection status
\* is 'testing'; the status of an earlier cycle is not observable while a
\* cycle is probing.
C28_TestingWhileProbing == \A c \in Calls : InFlight(c) => aiStatus = "testing"

\* ------------------------------------------------------ streamGeneration
\* The first frame of the body that carries stop = true.
FirstStopLine == LinesToFirstStop[Len(LinesToFirstStop)]

\* C29: a frame that carries both content and stop = true delivers its
\* content once and ends the call: a completed call whose first stop
\* frame has content made its last onToken call with that content, one
\* call per content frame up to it.
C29_StoppingFrameDelivered ==
  (pc = "done" /\ StopIndexes # {} /\ IsContentFrame(FirstStopLine))
    => /\ calls # <<>>
       /\ calls[Len(calls)] = Payload(FirstStopLine).content
       /\ Len(calls) = Len(ContentsOf(LinesToFirstStop))

\* -------------------------------------------------- fetchProviderModels
Fetching(f) == fpc[f] = "fetching"

\* A call that starts while fetchingModels is true returns at once, with
\* the flag, the catalog and modelsFetched as they were.
GuardedStart ==
  \A f \in FetchCalls :
    (fpc[f] = "idle" /\ fpc'[f] # "idle" /\ fetchingModels)
      => /\ fpc'[f] = "returned"
         /\ UNCHANGED <<fetchingModels, providerModels, modelsFetched>>

\* C30: at most one catalog fetch is in flight: fetchingModels is true
\* exactly while a fetch is in flight (false again after a fetch that
\* failed), and a call made while it is true returns without a request and
\* without touching the flag.
C30_OneFetchInFlight ==
  /\ [](Cardinality({f \in FetchCalls : Fetching(f)}) <= 1)
  /\ [](fetchingModels <=> \E f \in FetchCalls : Fetching(f))
  /\ [][GuardedStart]_vars

\* A second call returned at the guard while the first one's fetch was in
\* flight.
C30_Witness ==
  /\ config.aiApiKey
  /\ fetchingModels
  /\ Fetching(1)
  /\ fpc[2] = "returned"
  /\ response.kind = "ok"
  /\ ~modelsFetched


\* ------------------------------------------------------ streamGeneration
\* C34: when the stream ends without a stop event, what is left in the
\* buffer (a last frame not terminated by a newline) is discarded: the
\* call ends without error and its onToken calls are those of the
\* newline-terminated lines alone.
C34_UnterminatedFrameDiscarded ==
  (pc = "done" /\ StopIndexes = {})
    => /\ error = "none"
       /\ calls = ContentsOf(BodyLines)

\* The stream ended with an unterminated content frame in the buffer and
\* no call was made for it.
C34_Witness ==
  /\ pc = "done"
  /\ StopIndexes = {}
  /\ IsContentFrame(buffer)
  /\ calls = <<>>


\* ------------------------------------------------ settings and status
\* C33: the connection status becomes 'ready' only at the end of a test
\* cycle that succeeded: a cycle one of whose health probes returned a
\* success status, or a cycle without probes in api mode with key and
\* model present; loading settings, saving generation parameters,
\* fetching the catalog and generating never set it.
C33_ReadyOnlyAfterSuccess ==
  [][(aiStatus' = "ready" /\ aiStatus # "ready")
       => \E c \in Calls :
            /\ cpc[c] # "done" /\ cpc'[c] = "done" /\ connected'[c]
            /\ \/ okSeen'[c]
               \/ /\ attempt[c] = 0
                  /\ config.aiMode = "api" /\ config.aiApiKey /\ config.aiModel]_vars

\* The status is 'ready' after a cycle whose probe succeeded, with the
\* settings loaded and a generation call completed.
C33_Witness ==
  /\ aiStatus = "ready"
  /\ connected[1] /\ okSeen[1]
  /\ lpc = "loaded"
  /\ pc = "done"

\* C35: after a save followed by loadAISettings the app's mode, provider,
\* apiKey, model, temperature and maxTokens are the saved ones, for every
\* value of the form, temperature 0 included.
C35_SettingsRoundTrip ==
  (lpc = "loaded" /\ settings # <<>>)
    => /\ config.aiMode = settings[1].mode
       /\ aiProvider = settings[1].provider
       /\ config.aiApiKey = settings[1].apiKey
       /\ config.aiModel = settings[1].model
       /\ temperature = settings[1].temperature
       /\ maxTokens = settings[1].maxTokens


\* ------------------------------------------------------------ compendium
\* Every pending action the guard can be handed.
Actions ==
  {Action("close", 0, "")}
  \cup {Action("select", id, "") : id \in EntryIds}
  \cup {Action("category", 0, category) : category \in Categories}
  \cup {Action("create", 0, category) : category \in Categories}
  \cup {Action("moveToCategory", id, category) : id \in EntryIds, category \in Categories}

\* The user's operation that hands `action` to the guard.
Requests(action) ==
  CASE action.type = "close" -> CloseCompendium \/ (showCodexPanel /\ OpenCompendium)
    [] action.type = "select" -> SelectCompendiumEntry(action.id)
    [] action.type = "category" ->
         /\ action.category \in openCompCategories
         /\ currentCompEntry # Null /\ currentCompEntry[1].category = action.category
         /\ LoadCompendiumCategory(action.category)
    [] action.type = "create" -> CreateCompendiumEntry(action.category)
    [] action.type = "moveToCategory" ->
         /\ currentCompEntry # Null /\ currentCompEntry[1].id = action.id
         /\ MoveCompendiumEntryToCategory(action.id, action.category)

\* The panel, the selection and the store are as they were.
Untouched ==
  UNCHANGED <<compendium, currentCompEntry, compendiumOriginalEntry, compendiumDirty,
              showCodexPanel, openCompCategories>>

\* C31: a guarded operation (select another entry, close the panel, close
\* the current entry's category, create an entry, move the selected entry)
\* asked for while compendiumDirty is true changes nothing but the pending
\* action, which becomes its action, and the modal, which is shown; while
\* the modal is shown the pending action is run by the save or the discard
\* button only, and the cancel button clears it and the modal and leaves
\* the rest as it was.
C31_DirtyActionWaits ==
  [][/\ \A action \in Actions :
          (compendiumDirty /\ Requests(action)) =>
            (/\ pendingCompendiumAction' = <<action>>
             /\ showCompendiumUnsavedModal'
             /\ Untouched)
     /\ showCompendiumUnsavedModal =>
            (/\ lastOp'.how \in {"save", "discard", "cancel"}
             /\ (lastOp'.how \in {"save", "discard"} => lastOp'.ran = pendingCompendiumAction)
             /\ (lastOp'.how = "cancel" =>
                   (/\ lastOp'.ran = Null
                    /\ pendingCompendiumAction' = Null
                    /\ ~showCompendiumUnsavedModal'
                    /\ Untouched)))
     /\ (lastOp'.how = "direct" /\ lastOp'.requested # Null) => ~compendiumDirty]_vars

\* C31 witness: a select that had to wait was run by the discard button
\* and the entry it names is the selected one.
C31_Witness ==
  /\ lastOp.how = "discard"
  /\ lastOp.ran # Null
  /\ lastOp.ran[1].type = "select"
  /\ currentCompEntry # Null
  /\ currentCompEntry[1].id = lastOp.ran[1].id
  /\ pendingCompendiumAction = Null
  /\ ~showCompendiumUnsavedModal

\* C36: compendiumDirty = true implies that an entry is selected and its
\* original snapshot is stored.
C36_DirtyHasEntry ==
  compendiumDirty => (currentCompEntry # Null /\ compendiumOriginalEntry # Null)

\* The store holds the editable fields of `entry`.
Holds(store, entry) ==
  /\ store[entry.id] # Null
  /\ store[entry.id][1].title = entry.title
  /\ store[entry.id][1].tags = entry.tags

\* C37: a step of the modal's save button taken with a selected, edited
\* entry either wrote the entry's fields to the store, or left the entry
\* selected with its edits and its dirty flag and ran no pending action.
C37_FailedSaveKeepsEntry ==
  [][(showCompendiumUnsavedModal /\ currentCompEntry # Null /\ compendiumDirty
        /\ lastOp'.how = "save") =>
       \/ Holds(compendium', currentCompEntry[1])
       \/ /\ currentCompEntry' = currentCompEntry
          /\ compendiumDirty'
          /\ compendiumOriginalEntry' = compendiumOriginalEntry]_vars


\* ---------------------------------------------------------- prompt order
\* `list` with the elements at k and k + 1 changed over.
Exchanged(list, k) ==
  [i \in 1..Len(list) |-> IF i = k THEN list[k + 1] ELSE IF i = k + 1 THEN list[k] ELSE list[i]]

\* The list of the moved prompt's category as it is now.
ListNow == CategoryList(prompts, prompts[lastMove.id][1].category)

\* Where the moved prompt stood before the move.
WasAt == FindIndex(lastMove.before, lastMove.id)

\* C32: after movePromptUp the moved prompt stands directly before its
\* former predecessor, after movePromptDown directly after its former
\* successor, the rest of the category's list as before; the first / last
\* prompt is left where it is.
C32_MoveChangesPlaces ==
  /\ lastMove.dir = "up" =>
       ListNow = IF WasAt > 1 THEN Exchanged(lastMove.before, WasAt - 1) ELSE lastMove.before
  /\ lastMove.dir = "down" =>
       ListNow = IF WasAt < Len(lastMove.before)
                 THEN Exchanged(lastMove.before, WasAt) ELSE lastMove.before


\* ------------------------------------------------------------------ TTS
\* C38: while the synthesizer holds an utterance made by speak,
\* currentUtterance is that utterance, and the end or error callback of a
\* cancelled utterance that arrives meanwhile changes neither
\* currentUtterance nor isPaused.
C38_CurrentIsSpoken ==
  /\ [](synth # 0 => currentUtterance = synth)
  /\ [][(synth # 0 /\ \E u \in cancelled : cancelled' = cancelled \ {u}) =>
          UNCHANGED <<currentUtterance, isPaused>>]_vars


\* ------------------------------------------------------------ start.bat
\* C39: when a start reaches :update_done ready.json does not exist,
\* whichever way the update section was left, and over all the starts the
\* updates were copied no more often than updates were staged.
C39_AppliedAtMostOnce ==
  /\ bpc = "done" => ~readyJson
  /\ applied <= staged

\* C39 witness: a second start has passed the update section after the
\* first one copied the update.
C39_Witness ==
  /\ bpc = "done"
  /\ starts = 2
  /\ applied = 1
  /\ ~readyJson

====
